---- MODULE Spec2Model ----
(***************************************************************************)
(* A model of lightbeam's two halves:                                      *)
(*   - the x86-64 backend (src/src/backend.rs): the register pool, the     *)
(*     abstract operand stack, the locals table and the stack-depth        *)
(*     counter, together with the machine state (registers, machine        *)
(*     stack) that the emitted straight-line code acts on;                 *)
(*   - the Microwasm converter (src/src/microwasm.rs): the symbolic type   *)
(*     stack, the control-frame stack and the emitted operator stream.     *)
(* Every backend primitive emits straight-line code, so the effect of an   *)
(* emitted instruction on the machine is applied at the moment it is       *)
(* emitted.                                                                *)
(***************************************************************************)
EXTENDS Integers, Sequences, FiniteSets, TLC

VARIABLES
    \* ---- backend, compile time (Context / BlockState / Locals)
    stack,      \* block_state.stack : Seq(StackValue)
    depth,      \* block_state.depth : StackDepth (words)
    regs,       \* block_state.regs.scratch : the set of free GPRs (set bits)
    locs,       \* locals.locs : Seq(ValueLocation)
    panic,      \* "" or the message of the assert!/expect that aborted
    \* ---- backend, run time (what the emitted code does)
    rf,         \* register file: GPR -> value
    mem,        \* machine stack: byte address -> value
    spill,      \* local index -> address written by free_arg_registers' store
    call_args,  \* the arguments as the callee of the last call found them
    call_rsp,   \* the stack pointer at the last call instruction
    emitted,    \* number of machine instructions emitted so far
    \* ---- the values the operators denote (WebAssembly semantics)
    vstack,     \* value of each operand-stack entry
    vlocals,    \* value of each local
    \* ---- driver
    body,       \* the function body under translation (<<>>: operators come one by one)
    pc,         \* number of operators translated so far
    last,       \* the operator translated last
    prev,       \* the operator translated before it
    saved_state,     \* a BlockState taken by current_block_state, or None
    \* ---- converter (MicrowasmConv)
    ty_stack,        \* self.stack : Seq(SignlessType), the locals first
    control_frames,  \* self.control_frames : Seq(ControlFrame)
    unreachable,     \* self.unreachable
    is_done,         \* self.is_done
    current_id,      \* self.current_id
    consts_to_emit,  \* self.consts_to_emit : None or Seq(Value)
    num_locals,      \* self.num_locals
    func,            \* the function converted: the arguments of MicrowasmConv::new
    conv_panic,      \* "" or the message of the panic that aborted `next`
    skipping,        \* TRUE inside the loop of `next` that skips dead code
    skip_depth,      \* the local `depth` of that loop
    stream,          \* every operator yielded so far, in order
    batch,           \* the operators yielded for the source operator read last
    eos,             \* TRUE when the last call of `next` returned None (end of stream)
    \* ---- the source function (self.internal) and its validation
    read_op,         \* the source operator read last
    nread,           \* number of source operators read
    v_frames,        \* the validator's control stack
    v_stack,         \* the validator's operand stack (without the locals)
    \* ---- the code generation session (CodeGenSession)
    assembler,       \* self.assembler: the offset code is emitted at next
    func_defs,       \* self.func_defs : Seq(FuncDef), offset and label of each function
    section,         \* the result of into_translated_code_section: None or the offsets
    session_panic,   \* "" or the message of the panic that aborted the session
    session_op       \* the operation of the session performed last

bvars == <<stack, depth, regs, locs, panic, rf, mem, spill, call_args, call_rsp,
           emitted, vstack, vlocals, body, pc, last, prev, saved_state>>

cvars == <<ty_stack, control_frames, unreachable, is_done, current_id,
           consts_to_emit, num_locals, func, conv_panic, skipping, skip_depth,
           stream, batch, eos, read_op, nread, v_frames, v_stack>>

svars == <<assembler, func_defs, section, session_panic, session_op>>

vars == <<bvars, cvars, svars>>

----------------------------------------------------------------------------
(* Bounds of the model *)

\* operators translated per function in SpecBackend
MaxOps == 5
\* source operators read per function in SpecConv
MaxRead == 5
\* words of machine stack modelled below / above the entry stack pointer
MemBelow == 16
MemAbove == 4

----------------------------------------------------------------------------
(* Values.  A 32-bit word is <<hi, lo>> with two 16-bit limbs (every       *)
(* intermediate result stays below 2^31).  The other values a register or  *)
(* a stack slot can hold are tagged by a negative first component.         *)

W16 == 65536
Limb == 0..(W16 - 1)

Word(hi, lo) == <<hi, lo>>
Garbage == <<-1, 0>>
Addr(a) == <<-2, a>>
RetAddr == <<-3, 0>>
CallerRBP == <<-3, 1>>

IsWord(x) == x[1] >= 0

\* (x * y) mod 2^16 and (x * y) div 2^16 for 16-bit x, y
MulLo16(x, y) == ((((x \div 256) * y) % 256) * 256 + (x % 256) * y) % W16
MulHi16(x, y) ==
    LET t1 == (x \div 256) * y
        t0 == (x % 256) * y
    IN  (t1 \div 256) + (((t1 % 256) * 256 + t0) \div W16)

RECURSIVE BitOp16(_, _, _, _)
BitOp16(f, x, y, n) ==
    IF n = 0 THEN 0
    ELSE LET bx == x % 2
             by == y % 2
             b  == CASE f = "and" -> bx * by
                     [] f = "or"  -> IF bx + by > 0 THEN 1 ELSE 0
                     [] f = "xor" -> (bx + by) % 2
         IN  b + 2 * BitOp16(f, x \div 2, y \div 2, n - 1)

wrapping_add(a, b) ==
    LET lo == a[2] + b[2]
        hi == a[1] + b[1] + (lo \div W16)
    IN  Word(hi % W16, lo % W16)

wrapping_sub(a, b) ==
    LET lo == a[2] - b[2]
        hi == a[1] - b[1] - (IF lo < 0 THEN 1 ELSE 0)
    IN  Word((hi + 2 * W16) % W16, (lo + W16) % W16)

wrapping_mul(a, b) ==
    Word((MulHi16(a[2], b[2]) + MulLo16(a[1], b[2]) + MulLo16(a[2], b[1])) % W16,
         MulLo16(a[2], b[2]))

bitop(f, a, b) == Word(BitOp16(f, a[1], b[1], 16), BitOp16(f, a[2], b[2], 16))

BinOps == {"add", "sub", "and", "or", "xor", "mul"}

\* the reference operations of the tests: u32::wrapping_add, ..., BitXor::bitxor
RefOp(op, a, b) ==
    CASE op = "add" -> wrapping_add(a, b)
      [] op = "sub" -> wrapping_sub(a, b)
      [] op = "mul" -> wrapping_mul(a, b)
      [] OTHER      -> bitop(op, a, b)

----------------------------------------------------------------------------
(* Registers *)

RAX == 0
RCX == 1
RDX == 2
RBX == 3
RSP == 4
RBP == 5
RSI == 6
RDI == 7
R8 == 8
R9 == 9
R10 == 10
R11 == 11
NUM_GPRS == 16
WORD_SIZE == 8

GPR == 0..(NUM_GPRS - 1)

ARGS_IN_GPRS == <<RDI, RSI, RDX, RCX, R8, R9>>
SCRATCH_REGS == <<R10, R11>>

\* registers a System V callee may overwrite
CallerSaved == {RAX, RCX, RDX, RSI, RDI, R8, R9, R10, R11}

SeqRange(s) == {s[i] : i \in 1..Len(s)}
Min(S) == CHOOSE x \in S : \A y \in S : x <= y
Max(S) == CHOOSE x \in S : \A y \in S : x >= y
Last(s) == s[Len(s)]
Front(s) == SubSeq(s, 1, Len(s) - 1)

\* StackValue / Value
Local(k) == [tag |-> "Local", v |-> k]
Temp(g) == [tag |-> "Temp", v |-> g]
Pop == [tag |-> "Pop", v |-> 0]

\* ValueLocation
Reg(g) == [tag |-> "Reg", v |-> g]
Stack(o) == [tag |-> "Stack", v |-> o]
NoLoc == [tag |-> "None", v |-> 0]

Addrs == {WORD_SIZE * i : i \in (0 - MemBelow)..MemAbove}

----------------------------------------------------------------------------
(* The context a primitive works on, as one record.                        *)

Panic(c, msg) == IF c.panic = "" THEN [c EXCEPT !.panic = msg] ELSE c

rsp(c) == c.rf[RSP][2]

Read(c, a) == IF a \in DOMAIN c.mem THEN c.mem[a] ELSE Garbage
Write(c, a, x) == IF a \in DOMAIN c.mem THEN [c EXCEPT !.mem[a] = x] ELSE c

\* emitted instructions, applied to the machine
asm_push(c, g) ==
    LET a == rsp(c) - WORD_SIZE
    IN  [Write(c, a, c.rf[g]) EXCEPT !.rf[RSP] = Addr(a), !.emitted = @ + 1]
asm_pop(c, g) ==
    LET a == rsp(c)
    IN  [c EXCEPT !.rf = [@ EXCEPT ![RSP] = Addr(a + WORD_SIZE), ![g] = Read(c, a)],
                  !.emitted = @ + 1]
asm_mov_rr(c, dst, src) == [c EXCEPT !.rf[dst] = c.rf[src], !.emitted = @ + 1]
asm_load(c, dst, off) ==
    [c EXCEPT !.rf[dst] = Read(c, rsp(c) + off), !.emitted = @ + 1]
asm_store(c, off, src) ==
    [Write(c, rsp(c) + off, c.rf[src]) EXCEPT !.emitted = @ + 1]
asm_add_rsp(c, n) == [c EXCEPT !.rf[RSP] = Addr(rsp(c) + n), !.emitted = @ + 1]

\* a 32-bit ALU instruction `op Rd(dst), <x>`: the result is zero-extended
Alu(op, a, b) == IF IsWord(a) /\ IsWord(b) THEN RefOp(op, a, b) ELSE Garbage

asm_alu_rr(c, op, dst, src) ==
    [c EXCEPT !.rf[dst] = Alu(op, c.rf[dst], c.rf[src]), !.emitted = @ + 1]
asm_alu_rm(c, op, dst, off) ==
    [c EXCEPT !.rf[dst] = Alu(op, c.rf[dst], Read(c, rsp(c) + off)),
              !.emitted = @ + 1]
asm_mov_imm(c, dst, imm) == [c EXCEPT !.rf[dst] = imm, !.emitted = @ + 1]

\* the flag byte set on inequality (setne for sete)
SetNE(a, b) ==
    IF IsWord(a) /\ IsWord(b) THEN (IF a = b THEN Word(0, 0) ELSE Word(0, 1))
    ELSE Garbage

\* xor Rq(result), Rq(result); cmp Rd(l), <x>; sete Rb(result)
SetE(a, b) ==
    IF IsWord(a) /\ IsWord(b) THEN (IF a = b THEN Word(0, 1) ELSE Word(0, 0))
    ELSE Garbage

----------------------------------------------------------------------------
(* GPRs / Registers *)

\* A call of one backend function by another: Exec(f, args) is f applied to
\* args (the dispatch is defined after the functions it reaches).
RECURSIVE Exec(_, _)

take_scratch_gpr(c) ==
    IF c.free = {} THEN [c |-> Panic(c, "ran out of free GPRs"), gpr |-> RAX]
    ELSE LET g == Min(c.free)
         IN  [c |-> [c EXCEPT !.free = @ \ {g}], gpr |-> g]

release_scratch_gpr(c, g) ==
    IF g \in c.free THEN Panic(c, "released register was already free")
    ELSE [c EXCEPT !.free = @ \cup {g}]

free_scratch(c) == Cardinality(c.free)

is_free(c, g) == g \in c.free

\* Registers::new: the pool holds exactly SCRATCH_REGS
Registers_new == SeqRange(SCRATCH_REGS)

----------------------------------------------------------------------------
(* Locations *)

saturating_sub(a, b) == IF a > b THEN a - b ELSE 0

adjusted_offset(c, offset) == c.depth * WORD_SIZE + offset

local_location(locals, index) ==
    IF index < Len(locals) THEN locals[index + 1]
    ELSE Stack(saturating_sub(index, Len(ARGS_IN_GPRS)) * WORD_SIZE)

\* Value::location / StackValue::location
location(val, locals) ==
    CASE val.tag = "Local" -> local_location(locals, val.v)
      [] val.tag = "Temp"  -> Reg(val.v)
      [] OTHER             -> NoLoc

----------------------------------------------------------------------------
(* push / pop of the abstract operand stack *)

push_return_value(c) == [c EXCEPT !.stack = Append(@, Temp(RAX))]

\* a push that records a Pop entry without spilling the register
push_i32_unspilled(c, value) ==
    IF value.tag = "Local" THEN [c EXCEPT !.stack = Append(@, Local(value.v))]
    ELSE IF free_scratch(c) >= 1 THEN [c EXCEPT !.stack = Append(@, Temp(value.v))]
    ELSE LET c1 == [c EXCEPT !.depth = @ + 1]
             c3 == Exec("release_scratch_gpr", <<c1, value.v>>)
         IN  [c3 EXCEPT !.stack = Append(@, Pop)]

push_i32(c, value) ==
    IF value.tag = "Local" THEN [c EXCEPT !.stack = Append(@, Local(value.v))]
    ELSE IF free_scratch(c) >= 1 THEN [c EXCEPT !.stack = Append(@, Temp(value.v))]
    ELSE LET c1 == [c EXCEPT !.depth = @ + 1]
             c2 == asm_push(c1, value.v)
             c3 == Exec("release_scratch_gpr", <<c2, value.v>>)
         IN  [c3 EXCEPT !.stack = Append(@, Pop)]

\* a pop that forgets to give the machine-stack slot of a Pop entry back
pop_i32_keeps_depth(c) ==
    IF c.stack = <<>> THEN [c |-> Panic(c, "Stack is empty"), val |-> Temp(RAX)]
    ELSE LET top == Last(c.stack)
             c0  == [c EXCEPT !.stack = Front(@)]
         IN  IF top.tag # "Pop" THEN [c |-> c0, val |-> top]
             ELSE LET t == Exec("take_scratch_gpr", <<c0>>)
                  IN  [c |-> asm_pop(t.c, t.gpr), val |-> Temp(t.gpr)]

pop_i32(c) ==
    IF c.stack = <<>> THEN [c |-> Panic(c, "Stack is empty"), val |-> Temp(RAX)]
    ELSE LET top == Last(c.stack)
             c0  == [c EXCEPT !.stack = Front(@)]
         IN  IF top.tag # "Pop" THEN [c |-> c0, val |-> top]
             ELSE LET c1 == IF c0.depth = 0
                            THEN Panic(c0, "attempt to subtract with overflow")
                            ELSE [c0 EXCEPT !.depth = @ - 1]
                      t  == Exec("take_scratch_gpr", <<c1>>)
                  IN  [c |-> asm_pop(t.c, t.gpr), val |-> Temp(t.gpr)]

free_val(c, val) ==
    IF val.tag = "Temp" THEN Exec("release_scratch_gpr", <<c, val.v>>) ELSE c

\* a copy that moves the value even when source and destination coincide
copy_value_always(c, src, dst) ==
    CASE src.tag = "Stack" /\ dst.tag = "Stack" ->
            LET t  == Exec("take_scratch_gpr", <<c>>)
                c1 == asm_load(t.c, t.gpr, adjusted_offset(c, src.v))
                c2 == asm_store(c1, adjusted_offset(c, dst.v), t.gpr)
            IN  Exec("release_scratch_gpr", <<c2, t.gpr>>)
      [] src.tag = "Reg" /\ dst.tag = "Stack" ->
            asm_store(c, adjusted_offset(c, dst.v), src.v)
      [] src.tag = "Stack" /\ dst.tag = "Reg" ->
            asm_load(c, dst.v, adjusted_offset(c, src.v))
      [] src.tag = "Reg" /\ dst.tag = "Reg" -> asm_mov_rr(c, dst.v, src.v)
      [] OTHER -> Panic(c, "value has no location")

copy_value(c, src, dst) ==
    CASE src.tag = "Stack" /\ dst.tag = "Stack" ->
            LET in_offset  == adjusted_offset(c, src.v)
                out_offset == adjusted_offset(c, dst.v)
            IN  IF in_offset # out_offset
                THEN LET t  == Exec("take_scratch_gpr", <<c>>)
                         c1 == asm_load(t.c, t.gpr, in_offset)
                         c2 == asm_store(c1, out_offset, t.gpr)
                     IN  Exec("release_scratch_gpr", <<c2, t.gpr>>)
                ELSE c
      [] src.tag = "Reg" /\ dst.tag = "Stack" ->
            asm_store(c, adjusted_offset(c, dst.v), src.v)
      [] src.tag = "Stack" /\ dst.tag = "Reg" ->
            asm_load(c, dst.v, adjusted_offset(c, src.v))
      [] src.tag = "Reg" /\ dst.tag = "Reg" ->
            IF src.v # dst.v THEN asm_mov_rr(c, dst.v, src.v) ELSE c
      [] OTHER -> Panic(c, "value has no location")

pop_i32_into(c, dst) ==
    LET p  == Exec("pop_i32", <<c>>)
        c1 == Exec("copy_value", <<p.c, location(p.val, p.c.locs), dst>>)
    IN  Exec("free_val", <<c1, p.val>>)

into_reg(c, val) ==
    LET loc == location(val, c.locs)
    IN  IF loc.tag = "Stack"
        THEN LET offset == adjusted_offset(c, loc.v)
                 t      == Exec("take_scratch_gpr", <<c>>)
             IN  [c |-> asm_load(t.c, t.gpr, offset), gpr |-> t.gpr]
        ELSE [c |-> c, gpr |-> loc.v]

into_temp_reg(c, val) ==
    IF val.tag = "Local"
    THEN LET t   == Exec("take_scratch_gpr", <<c>>)
             loc == local_location(t.c.locs, val.v)
         IN  IF loc.tag = "Stack"
             THEN [c |-> asm_load(t.c, t.gpr, adjusted_offset(t.c, loc.v)), gpr |-> t.gpr]
             ELSE [c |-> asm_mov_rr(t.c, t.gpr, loc.v), gpr |-> t.gpr]
    ELSE [c |-> c, gpr |-> val.v]

----------------------------------------------------------------------------
(* Arithmetic, comparison, locals, constants *)

\* the common body of i32_add, i32_sub, i32_and, i32_or, i32_xor, i32_mul
binop(c, op) ==
    LET p0  == Exec("pop_i32", <<c>>)
        op0 == p0.val
        p1  == Exec("pop_i32", <<p0.c>>)
        t   == Exec("into_temp_reg", <<p1.c, p1.val>>)
        op1 == t.gpr
        loc == location(op0, t.c.locs)
        c3  == IF loc.tag = "Reg"
               THEN asm_alu_rr(t.c, op, op1, loc.v)
               ELSE asm_alu_rm(t.c, op, op1, adjusted_offset(t.c, loc.v))
        c4  == [c3 EXCEPT !.stack = Append(@, Temp(op1))]
    IN  Exec("free_val", <<c4, op0>>)

\* a subtraction that takes its operands in the wrong order (b - a)
i32_sub_swapped(c) ==
    LET p0  == Exec("pop_i32", <<c>>)
        p1  == Exec("pop_i32", <<p0.c>>)
        t   == Exec("into_temp_reg", <<p1.c, p1.val>>)
        loc == location(p0.val, t.c.locs)
        x   == IF loc.tag = "Reg" THEN t.c.rf[loc.v]
               ELSE Read(t.c, rsp(t.c) + adjusted_offset(t.c, loc.v))
        c4  == [t.c EXCEPT !.rf[t.gpr] = Alu("sub", x, t.c.rf[t.gpr]),
                           !.emitted = @ + 1,
                           !.stack = Append(@, Temp(t.gpr))]
    IN  Exec("free_val", <<c4, p0.val>>)

i32_add(c) == Exec("binop", <<c, "add">>)
i32_sub(c) == Exec("binop", <<c, "sub">>)
i32_and(c) == Exec("binop", <<c, "and">>)
i32_or(c)  == Exec("binop", <<c, "or">>)
i32_xor(c) == Exec("binop", <<c, "xor">>)
i32_mul(c) == Exec("binop", <<c, "mul">>)

get_local_i32(c, local_idx) == Exec("push_i32", <<c, Local(local_idx)>>)

set_local_i32(c, local_idx) ==
    LET p       == Exec("pop_i32", <<c>>)
        val_loc == location(p.val, p.c.locs)
        dst_loc == local_location(p.c.locs, local_idx)
    IN  Exec("free_val", <<Exec("copy_value", <<p.c, val_loc, dst_loc>>), p.val>>)

literal_i32(c, imm) ==
    LET t == Exec("take_scratch_gpr", <<c>>)
    IN  Exec("push_i32", <<asm_mov_imm(t.c, t.gpr, imm), Temp(t.gpr)>>)

relop_eq_i32(c) ==
    LET pr     == Exec("pop_i32", <<c>>)
        right  == pr.val
        pl     == Exec("pop_i32", <<pr.c>>)
        left   == pl.val
        t      == Exec("take_scratch_gpr", <<pl.c>>)
        result == t.gpr
        l      == Exec("into_reg", <<t.c, left>>)
        rloc   == location(right, l.c.locs)
        z      == asm_mov_imm(l.c, result, Word(0, 0))
        rv     == IF rloc.tag = "Stack"
                  THEN Read(z, rsp(z) + adjusted_offset(z, rloc.v))
                  ELSE z.rf[rloc.v]
        c1     == [z EXCEPT !.rf[result] = SetE(z.rf[l.gpr], rv),
                            !.emitted = @ + 2]
        c2     == Exec("push_i32", <<c1, Temp(result)>>)
    IN  Exec("free_val", <<Exec("free_val", <<c2, left>>), right>>)

prepare_return_value(c) == Exec("pop_i32_into", <<c, Reg(RAX)>>)

----------------------------------------------------------------------------
(* Calls *)

RECURSIVE free_arg_loop(_, _)
free_arg_loop(c, i) ==
    IF i >= Len(c.locs) THEN c
    ELSE LET l  == c.locs[i + 1]
             c1 == IF l.tag = "Reg" /\ l.v \in SeqRange(ARGS_IN_GPRS)
                   THEN LET offset == adjusted_offset(c, i * WORD_SIZE)
                            s      == asm_store(c, offset, l.v)
                        IN  [s EXCEPT !.locs[i + 1] = Stack(offset),
                                      !.spill = @ \cup {<<i, rsp(c) + offset>>}]
                   ELSE c
         IN  free_arg_loop(c1, i + 1)

\* a spill that rewrites the entries of the locals table and stores nothing
free_arg_registers_unsaved(c, count) ==
    IF count = 0 THEN c
    ELSE [c EXCEPT !.locs =
            [i \in 1..Len(c.locs) |->
                IF c.locs[i].tag = "Reg" /\ c.locs[i].v \in SeqRange(ARGS_IN_GPRS)
                THEN Stack(adjusted_offset(c, (i - 1) * WORD_SIZE))
                ELSE c.locs[i]]]

free_arg_registers(c, count) == IF count = 0 THEN c ELSE free_arg_loop(c, 0)

RECURSIVE free_return_loop(_, _)
free_return_loop(c, j) ==
    IF j > Len(c.stack) THEN c
    ELSE LET loc == location(c.stack[j], c.locs)
             c1  == IF loc = Reg(RAX)
                    THEN LET t == Exec("take_scratch_gpr", <<c>>)
                         IN  [asm_mov_rr(t.c, t.gpr, RAX) EXCEPT !.stack[j] = Temp(t.gpr)]
                    ELSE c
         IN  free_return_loop(c1, j + 1)

free_return_register(c, count) == IF count = 0 THEN c ELSE free_return_loop(c, 1)

RECURSIVE save_volatile_loop(_, _, _)
save_volatile_loop(c, k, out) ==
    IF k > Len(SCRATCH_REGS) THEN [c |-> c, out |-> out]
    ELSE LET reg == SCRATCH_REGS[k]
         IN  IF ~is_free(c, reg)
             THEN save_volatile_loop(asm_push(c, reg), k + 1, Append(out, reg))
             ELSE save_volatile_loop(c, k + 1, out)

save_volatile(c) == save_volatile_loop(c, 1, <<>>)

\* for stack_slot in (0..num_stack_args).rev()
RECURSIVE stack_args_loop(_, _)
stack_args_loop(c, stack_slot) ==
    IF stack_slot < 0 \/ c.panic # "" THEN c
    ELSE LET offset == stack_slot * WORD_SIZE - c.depth * WORD_SIZE
         IN  stack_args_loop(Exec("pop_i32_into", <<c, Stack(offset)>>), stack_slot - 1)

\* for reg in ARGS_IN_GPRS[..min(arity, 6)].iter().rev()
RECURSIVE reg_args_loop(_, _)
reg_args_loop(c, k) ==
    IF k < 1 \/ c.panic # "" THEN c
    ELSE reg_args_loop(Exec("pop_i32_into", <<c, Reg(ARGS_IN_GPRS[k])>>), k - 1)

pass_outgoing_args(c, arity) ==
    LET num_stack_args == saturating_sub(arity, Len(ARGS_IN_GPRS))
        sv  == save_volatile(c)
        out == [stack_depth |-> num_stack_args, restore_registers |-> sv.out]
        c1  == IF num_stack_args > 0
               THEN LET r == [asm_add_rsp(sv.c, 0 - num_stack_args * WORD_SIZE)
                                 EXCEPT !.depth = @ + num_stack_args]
                    IN  stack_args_loop(r, num_stack_args - 1)
               ELSE sv.c
        c2  == reg_args_loop(c1, Min({arity, Len(ARGS_IN_GPRS)}))
    IN  [c |-> c2, cleanup |-> out]

RECURSIVE restore_loop(_, _, _)
restore_loop(c, restore_registers, k) ==
    IF k < 1 \/ c.panic # "" THEN c
    ELSE restore_loop(asm_pop(c, restore_registers[k]), restore_registers, k - 1)

post_call_cleanup(c, cleanup) ==
    LET c1 == IF cleanup.stack_depth > 0
              THEN asm_add_rsp(c, cleanup.stack_depth * WORD_SIZE)
              ELSE c
    IN  restore_loop(c1, cleanup.restore_registers, Len(cleanup.restore_registers))

\* argument i as the callee finds it at the call instruction
ArgAtCall(c, i) ==
    IF i < Len(ARGS_IN_GPRS) THEN c.rf[ARGS_IN_GPRS[i + 1]]
    ELSE Read(c, rsp(c) + WORD_SIZE * (i - Len(ARGS_IN_GPRS)))

\* `call =>label`: the callee reads its arguments, may overwrite every
\* caller-saved register and everything below the stack pointer, and leaves
\* its result (if any) in RAX
asm_call(c, arg_arity, return_arity, result) ==
    [c EXCEPT !.call = [i \in 1..arg_arity |-> ArgAtCall(c, i - 1)],
              !.call_sp = c.rf[RSP],
              !.emitted = @ + 1,
              !.rf   = [g \in GPR |->
                          IF g = RAX /\ return_arity = 1 THEN result
                          ELSE IF g \in CallerSaved THEN Garbage
                          ELSE c.rf[g]],
              !.mem  = [a \in DOMAIN c.mem |->
                          IF a < rsp(c) THEN Garbage ELSE c.mem[a]]]

\* a call that does not look at the return arity
call_direct_unchecked(c, arg_arity, return_arity, result) ==
    LET c1 == free_arg_registers(c, arg_arity)
        c2 == free_return_register(c1, return_arity)
        p  == pass_outgoing_args(c2, arg_arity)
        c3 == asm_call(p.c, arg_arity, return_arity, result)
    IN  post_call_cleanup(c3, p.cleanup)

call_direct(c, arg_arity, return_arity, result) ==
    IF ~(return_arity = 0 \/ return_arity = 1)
    THEN Panic(c, "We don't support multiple return yet")
    ELSE LET c1 == free_arg_registers(c, arg_arity)
             c2 == free_return_register(c1, return_arity)
             p  == pass_outgoing_args(c2, arg_arity)
             c3 == asm_call(p.c, arg_arity, return_arity, result)
         IN  post_call_cleanup(c3, p.cleanup)

----------------------------------------------------------------------------
(* Prologue and epilogue *)

\* the machine when the function is entered with the given argument values
EntryMachine(argv) ==
    [rf  |-> [g \in GPR |->
                IF g = RSP THEN Addr(0)
                ELSE IF g = RBP THEN CallerRBP
                ELSE IF \E i \in 1..Min({Len(argv), Len(ARGS_IN_GPRS)}) : ARGS_IN_GPRS[i] = g
                     THEN argv[CHOOSE i \in 1..Len(ARGS_IN_GPRS) : ARGS_IN_GPRS[i] = g]
                ELSE Garbage],
     mem |-> [a \in Addrs |->
                IF a = 0 THEN RetAddr
                ELSE IF a > 0 /\ (a \div WORD_SIZE) + Len(ARGS_IN_GPRS) <= Len(argv)
                     THEN argv[(a \div WORD_SIZE) + Len(ARGS_IN_GPRS)]
                ELSE Garbage]]

\* CodeGenSession::new_context: fresh pool, empty locals table, empty stack
new_context(m) ==
    [stack |-> <<>>, depth |-> 0, free |-> Registers_new, locs |-> <<>>,
     panic |-> "", rf |-> m.rf, mem |-> m.mem, spill |-> {}, call |-> <<>>,
     call_sp |-> Garbage, emitted |-> 0]

\* a prologue that does not round the number of slots up to an even number
start_function_unaligned(c, arguments, locals) ==
    LET nreg      == Min({arguments, Len(ARGS_IN_GPRS)})
        framesize == (locals + nreg) * WORD_SIZE
        c1 == [c EXCEPT !.locs =
                 [i \in 1..arguments |->
                    IF i <= nreg THEN Reg(ARGS_IN_GPRS[i])
                    ELSE Stack(((i - 1 - nreg) + 2) * WORD_SIZE + framesize)]]
        c2 == asm_push(c1, RBP)
        c3 == asm_mov_rr(c2, RBP, RSP)
    IN  IF framesize > 0 THEN asm_add_rsp(c3, 0 - framesize) ELSE c3

start_function(c, arguments, locals) ==
    LET nreg      == Min({arguments, Len(ARGS_IN_GPRS)})
        locals1   == locals + nreg
        aligned_stack_slots == ((locals1 + 1) \div 2) * 2
        framesize == aligned_stack_slots * WORD_SIZE
        c1 == [c EXCEPT !.locs =
                 [i \in 1..arguments |->
                    IF i <= nreg THEN Reg(ARGS_IN_GPRS[i])
                    ELSE Stack(((i - 1 - nreg) + 2) * WORD_SIZE + framesize)]]
        c2 == asm_push(c1, RBP)
        c3 == asm_mov_rr(c2, RBP, RSP)
    IN  IF framesize > 0 THEN asm_add_rsp(c3, 0 - framesize) ELSE c3

\* mov rsp, rbp; pop rbp (the `ret` that follows returns to the caller)
epilogue(c) == asm_pop(asm_mov_rr(c, RSP, RBP), RBP)

----------------------------------------------------------------------------
(* The converter's variables while only the backend is exercised.          *)

SessionIdle ==
    /\ assembler = <<>>
    /\ func_defs = <<>>
    /\ section = <<>>
    /\ session_panic = ""
    /\ session_op = <<"none">>

ConvIdle ==
    /\ ty_stack = <<>>
    /\ control_frames = <<>>
    /\ unreachable = FALSE
    /\ is_done = TRUE
    /\ current_id = 0
    /\ consts_to_emit = <<>>
    /\ num_locals = 0
    /\ func = [params |-> <<>>, locals |-> <<>>, returns |-> <<>>]
    /\ conv_panic = ""
    /\ skipping = FALSE
    /\ skip_depth = 0
    /\ stream = <<>>
    /\ batch = <<>>
    /\ eos = FALSE
    /\ read_op = [op |-> "none"]
    /\ nread = 0
    /\ v_frames = <<>>
    /\ v_stack = <<>>

----------------------------------------------------------------------------
(* The driver: one backend primitive per operator of the function body.    *)

Op(op, n, m, w) == [op |-> op, n |-> n, m |-> m, w |-> w]
NoOp == Op("start", 0, 0, Word(0, 0))

Cur ==
    [stack |-> stack, depth |-> depth, free |-> regs, locs |-> locs,
     panic |-> panic, rf |-> rf, mem |-> mem, spill |-> spill, call |-> call_args,
     call_sp |-> call_rsp, emitted |-> emitted]

\* a call operator: call_direct, then the callee's result, when it returns
\* one, pushed on the operand stack as Temp(RAX)
call_operator(c, arg_arity, return_arity, result) ==
    LET c1 == call_direct(c, arg_arity, return_arity, result)
    IN  IF return_arity = 1 THEN push_return_value(c1) ELSE c1

Apply(c, o) ==
    CASE o.op = "get_local" -> get_local_i32(c, o.n)
      [] o.op = "set_local" -> set_local_i32(c, o.n)
      [] o.op = "const"     -> literal_i32(c, o.w)
      [] o.op = "add"       -> i32_add(c)
      [] o.op = "sub"       -> i32_sub(c)
      [] o.op = "and"       -> i32_and(c)
      [] o.op = "or"        -> i32_or(c)
      [] o.op = "xor"       -> i32_xor(c)
      [] o.op = "mul"       -> i32_mul(c)
      [] o.op = "eq"        -> relop_eq_i32(c)
      [] o.op = "call"      -> call_operator(c, o.n, o.m, o.w)
      [] o.op = "end"       -> epilogue(prepare_return_value(c))

Exec(f, a) ==
    CASE f = "take_scratch_gpr"    -> take_scratch_gpr(a[1])
      [] f = "release_scratch_gpr" -> release_scratch_gpr(a[1], a[2])
      [] f = "push_i32"            -> push_i32(a[1], a[2])
      [] f = "pop_i32"             -> pop_i32(a[1])
      [] f = "free_val"            -> free_val(a[1], a[2])
      [] f = "copy_value"          -> copy_value(a[1], a[2], a[3])
      [] f = "pop_i32_into"        -> pop_i32_into(a[1], a[2])
      [] f = "into_reg"            -> into_reg(a[1], a[2])
      [] f = "into_temp_reg"       -> into_temp_reg(a[1], a[2])
      [] f = "binop"               -> binop(a[1], a[2])
      [] f = "Apply"               -> Apply(a[1], a[2])

\* operands the operator takes from the operand stack
Takes(o) ==
    CASE o.op \in BinOps \cup {"eq"}      -> 2
      [] o.op \in {"set_local", "end"}    -> 1
      [] o.op = "call"                    -> o.n
      [] OTHER                            -> 0

WellTyped(o) ==
    /\ Len(vstack) >= Takes(o)
    /\ o.op = "end" => Len(vstack) = 1
    /\ o.op \in {"get_local", "set_local"} => o.n < Len(vlocals)

\* the value the operator leaves on the operand stack (WebAssembly semantics)
Denotes(o) ==
    LET n == Len(vstack)
    IN  CASE o.op = "get_local" -> <<vlocals[o.n + 1]>>
          [] o.op = "const"     -> <<o.w>>
          [] o.op \in BinOps    -> <<RefOp(o.op, vstack[n - 1], vstack[n])>>
          [] o.op = "eq"        -> <<IF vstack[n - 1] = vstack[n] THEN Word(0, 1) ELSE Word(0, 0)>>
          [] o.op = "call"      -> IF o.m = 1 THEN <<o.w>> ELSE <<>>
          [] OTHER              -> <<>>

\* the state after the operator: the context the backend leaves, and the
\* operand stack and locals the operator denotes
Commit(c, o) ==
    IF c.panic # ""
    THEN /\ panic' = c.panic
         /\ UNCHANGED <<stack, depth, regs, locs, rf, mem, spill, call_args, call_rsp,
                        emitted,
                        vstack, vlocals>>
    ELSE /\ stack' = c.stack
         /\ depth' = c.depth
         /\ regs' = c.free
         /\ locs' = c.locs
         /\ panic' = c.panic
         /\ rf' = c.rf
         /\ mem' = c.mem
         /\ spill' = c.spill
         /\ call_args' = c.call
         /\ call_rsp' = c.call_sp
         /\ emitted' = c.emitted
         /\ vstack' = SubSeq(vstack, 1, Len(vstack) - Takes(o)) \o Denotes(o)
         /\ vlocals' = IF o.op = "set_local"
                       THEN [vlocals EXCEPT ![o.n + 1] = Last(vstack)]
                       ELSE vlocals

Step(o) ==
    /\ panic = ""
    /\ last.op # "end"
    /\ WellTyped(o)
    /\ Commit(Exec("Apply", <<Cur, o>>), o)
    /\ pc' = pc + 1
    /\ last' = o
    /\ prev' = last
    /\ UNCHANGED <<body, cvars, svars, saved_state>>

\* the state after new_context and start_function for a function with the
\* given argument values and number of declared locals
InitFunction(argv, locals, b) ==
    LET c == start_function(new_context(EntryMachine(argv)), Len(argv), locals)
    IN  /\ stack = c.stack
        /\ depth = c.depth
        /\ regs = c.free
        /\ locs = c.locs
        /\ panic = c.panic
        /\ rf = c.rf
        /\ mem = c.mem
        /\ spill = c.spill
        /\ call_args = c.call
        /\ call_rsp = c.call_sp
        /\ emitted = c.emitted
        /\ vstack = <<>>
        /\ vlocals = argv \o [i \in 1..locals |-> Word(0, 0)]
        /\ body = b
        /\ pc = 0
        /\ last = NoOp
        /\ prev = NoOp
        /\ saved_state = <<>>
        /\ ConvIdle
        /\ SessionIdle

----------------------------------------------------------------------------
(* SpecBinop: the functions of binop_test!,                                *)
(*   (func (param i32) (param i32) (result i32)                            *)
(*      (i32.<op> (get_local 0) (get_local 1)))                            *)
(* run on pairs of 32-bit arguments.                                       *)

TestVals ==
    {Word(0, 0), Word(0, 1), Word(0, 3), Word(0, 65535), Word(1, 0),
     Word(32768, 0), Word(65535, 65535), Word(0, 1312)}

BinopBody(op) ==
    <<Op("get_local", 0, 0, Word(0, 0)), Op("get_local", 1, 0, Word(0, 0)),
      Op(op, 0, 0, Word(0, 0)), Op("end", 0, 0, Word(0, 0))>>

InitBinop ==
    \E a \in TestVals, b \in TestVals, op \in BinOps :
        InitFunction(<<a, b>>, 0, BinopBody(op))

Translate ==
    /\ pc < Len(body)
    /\ Step(body[pc + 1])

NextBinop == Translate

SpecBinop == InitBinop /\ [][NextBinop]_vars

----------------------------------------------------------------------------
(* SpecBackend: any well-typed sequence of at most MaxOps operators.       *)

BackendArgs == {<<Word(0, 11)>>, <<Word(0, 11), Word(0, 12)>>}
ConstVals == {Word(0, 21), Word(0, 22)}
RetVals == {Word(0, 31)}
\* (argument arity, return arity) of the functions of the module
ModuleFuncs == {<<0, 1>>, <<1, 0>>, <<1, 1>>, <<2, 1>>, <<0, 2>>, <<1, 2>>}
BackendBinOps == {"add", "sub"}

InitBackend == \E argv \in BackendArgs : InitFunction(argv, 0, <<>>)

GetLocal == \E k \in 0..1 : pc < MaxOps /\ body = <<>> /\ Step(Op("get_local", k, 0, Word(0, 0)))
SetLocal == \E k \in 0..1 : pc < MaxOps /\ body = <<>> /\ Step(Op("set_local", k, 0, Word(0, 0)))
Const == \E w \in ConstVals : pc < MaxOps /\ body = <<>> /\ Step(Op("const", 0, 0, w))
Binop == \E op \in BackendBinOps : pc < MaxOps /\ body = <<>> /\ Step(Op(op, 0, 0, Word(0, 0)))
Eq == pc < MaxOps /\ body = <<>> /\ Step(Op("eq", 0, 0, Word(0, 0)))
Call ==
    \E f \in ModuleFuncs, r \in RetVals :
        pc < MaxOps /\ body = <<>> /\ Step(Op("call", f[1], f[2], r))
End == pc < MaxOps /\ body = <<>> /\ Step(Op("end", 0, 0, Word(0, 0)))

NextBackend == GetLocal \/ SetLocal \/ Const \/ Binop \/ Eq \/ Call \/ End

SpecBackend == InitBackend /\ [][NextBackend]_vars

----------------------------------------------------------------------------
(* SpecLocals: functions with declared locals next to their parameters,   *)
(* and any well-typed sequence of at most MaxOps reads and writes of the   *)
(* locals, constants and calls.                                            *)

MaxDeclared == 2

LocalsArgs == {<<>>, <<Word(0, 11)>>, <<Word(0, 11), Word(0, 12)>>}

InitLocals ==
    \E argv \in LocalsArgs, locals \in 0..MaxDeclared : InitFunction(argv, locals, <<>>)

LocalsGet ==
    \E k \in 0..(1 + MaxDeclared) :
        pc < MaxOps /\ body = <<>> /\ Step(Op("get_local", k, 0, Word(0, 0)))
LocalsSet ==
    \E k \in 0..(1 + MaxDeclared) :
        pc < MaxOps /\ body = <<>> /\ Step(Op("set_local", k, 0, Word(0, 0)))

NextLocals == LocalsGet \/ LocalsSet \/ Const \/ Call

SpecLocals == InitLocals /\ [][NextLocals]_vars

----------------------------------------------------------------------------
(* SpecBlocks: a function of one parameter, and any sequence of at most    *)
(* MaxOps steps that translate an operator, take the block state or put    *)
(* the block state taken last back (as the translation of blocks does).    *)

\* current_block_state
current_block_state(c) == [stack |-> c.stack, depth |-> c.depth, regs |-> c.free]

\* restore_block_state
restore_block_state(c, block_state) ==
    [c EXCEPT !.stack = block_state.stack,
              !.depth = block_state.depth,
              !.free  = block_state.regs]

BlockOps ==
    {Op("get_local", 0, 0, Word(0, 0)), Op("set_local", 0, 0, Word(0, 0)),
     Op("const", 0, 0, Word(0, 21)), Op("add", 0, 0, Word(0, 0)),
     Op("call", 1, 1, Word(0, 31)), Op("call", 0, 0, Word(0, 31))}

InitBlocks == InitFunction(<<Word(0, 11)>>, 0, <<>>)

TranslateBlockOp == \E o \in BlockOps : pc < MaxOps /\ body = <<>> /\ Step(o)

CurrentBlockState ==
    /\ pc < MaxOps
    /\ panic = ""
    /\ saved_state' = <<current_block_state(Cur)>>
    /\ pc' = pc + 1
    /\ last' = Op("current_block_state", 0, 0, Word(0, 0))
    /\ prev' = last
    /\ UNCHANGED <<stack, depth, regs, locs, panic, rf, mem, spill, call_args,
                   call_rsp, emitted, vstack, vlocals, body, cvars, svars>>

\* the operands pushed since the block state was taken are given up
RestoreBlockState ==
    /\ pc < MaxOps
    /\ panic = ""
    /\ saved_state # <<>>
    /\ Len(vstack) >= Len(saved_state[1].stack)
    /\ LET c == restore_block_state(Cur, saved_state[1])
       IN  /\ stack' = c.stack
           /\ depth' = c.depth
           /\ regs' = c.free
           /\ locs' = c.locs
    /\ vstack' = SubSeq(vstack, 1, Len(saved_state[1].stack))
    /\ pc' = pc + 1
    /\ last' = Op("restore_block_state", 0, 0, Word(0, 0))
    /\ prev' = last
    /\ UNCHANGED <<panic, rf, mem, spill, call_args, call_rsp, emitted, vlocals,
                   body, saved_state, cvars, svars>>

NextBlocks == TranslateBlockOp \/ CurrentBlockState \/ RestoreBlockState

SpecBlocks == InitBlocks /\ [][NextBlocks]_vars

----------------------------------------------------------------------------
(* SpecEq: the function of the test relop_eq,                              *)
(*   (func (param i32) (param i32) (result i32)                            *)
(*      (i32.eq (get_local 0) (get_local 1)))                              *)

InitEq ==
    \E a \in TestVals, b \in TestVals : InitFunction(<<a, b>>, 0, BinopBody("eq"))

TranslateEq ==
    /\ pc < Len(body)
    /\ Step(body[pc + 1])

SpecEq == InitEq /\ [][TranslateEq]_vars

----------------------------------------------------------------------------
(* SpecManyArgs: functions that push n operands and call a function of n   *)
(* parameters, for n around the number of argument registers.              *)

MaxArity == 7

ArgPushes == {Op("get_local", 0, 0, Word(0, 0)), Op("const", 0, 0, Word(0, 21))}

ManyArgBodies ==
    UNION {{p \o <<Op("call", n, r, Word(0, 31))>> : p \in [1..n -> ArgPushes]} :
              n \in (Len(ARGS_IN_GPRS) - 1)..MaxArity, r \in {0, 1}}

InitManyArgs == \E b \in ManyArgBodies : InitFunction(<<Word(0, 11)>>, 0, b)

TranslateNext ==
    /\ pc < Len(body)
    /\ Step(body[pc + 1])

SpecManyArgs == InitManyArgs /\ [][TranslateNext]_vars

----------------------------------------------------------------------------
(* SpecFrame: functions of 0 to MaxArgs parameters and 0 to MaxDeclared    *)
(* declared locals that return one of their parameters.                    *)

MaxArgs == 8

FrameArgs == [i \in 1..MaxArgs |-> Word(0, 100 + i)]

FrameBody(k) == <<Op("get_local", k, 0, Word(0, 0)), Op("end", 0, 0, Word(0, 0))>>

InitFrame ==
    \E a \in 0..MaxArgs, d \in 0..MaxDeclared, k \in 0..MaxArgs :
        /\ k < a \/ (a = 0 /\ k = 0)
        /\ InitFunction(SubSeq(FrameArgs, 1, a), d, FrameBody(k))

SpecFrame == InitFrame /\ [][TranslateNext]_vars

----------------------------------------------------------------------------
(* SpecLiteral: the function of the test `literals`,                       *)
(*   (func (param i32) (param i32) (result i32) (i32.const K)),            *)
(* for sampled 32-bit K, also translated after operators that leave values *)
(* on the operand stack, so that the constant is pushed with a scratch     *)
(* register to spare (Temp) and with none (Pop).  The operators are        *)
(* translated as they come: the end of the function returns the top of     *)
(* the operand stack whatever lies beneath it.                             *)

LiteralPrefixes ==
    {<<>>,
     <<Op("get_local", 0, 0, Word(0, 0))>>,
     <<Op("const", 0, 0, Word(0, 21))>>,
     <<Op("get_local", 1, 0, Word(0, 0)), Op("const", 0, 0, Word(0, 21))>>,
     <<Op("const", 0, 0, Word(0, 21)), Op("const", 0, 0, Word(0, 22))>>}

LiteralBody(pre, K) ==
    pre \o <<Op("const", 0, 0, K), Op("end", 0, 0, Word(0, 0))>>

InitLiteral ==
    \E pre \in LiteralPrefixes, K \in TestVals :
        InitFunction(<<Word(0, 11), Word(0, 12)>>, 0, LiteralBody(pre, K))

TranslateLiteral ==
    /\ pc < Len(body)
    /\ panic = ""
    /\ Commit(Exec("Apply", <<Cur, body[pc + 1]>>), body[pc + 1])
    /\ pc' = pc + 1
    /\ last' = body[pc + 1]
    /\ prev' = last
    /\ UNCHANGED <<body, cvars, svars, saved_state>>

SpecLiteral == InitLiteral /\ [][TranslateLiteral]_vars

----------------------------------------------------------------------------
(* SpecTranslate: the translation loop of function_body.rs over the        *)
(* well-typed bodies of at most MaxBody operators and the final end, for   *)
(* a function of two parameters.  The loop implements i32.add, get_local   *)
(* and end; every other operator is an unsupported opcode.                 *)

MaxBody == 3

\* trap: ud2
trap(c) == [c EXCEPT !.emitted = @ + 1]

\* an operator without an implementation is compiled to a trap
unsupported_opcode(c) == trap(c)

Implemented == {"add", "get_local", "end"}

\* translate: the match on the operator; the epilogue follows the loop, that
\* is the end of the function
translate_op(c, o) ==
    CASE o.op = "add"       -> i32_add(c)
      [] o.op = "get_local" -> get_local_i32(c, o.n)
      [] o.op = "end"       -> epilogue(prepare_return_value(c))
      [] OTHER              -> unsupported_opcode(c)

TranslateOps ==
    {Op("get_local", 0, 0, Word(0, 0)), Op("get_local", 1, 0, Word(0, 0)),
     Op("add", 0, 0, Word(0, 0)), Op("sub", 0, 0, Word(0, 0)),
     Op("const", 0, 0, Word(0, 21))}

TranslateBodies ==
    UNION {{p \o <<Op("end", 0, 0, Word(0, 0))>> : p \in [1..n -> TranslateOps]} :
              n \in 1..MaxBody}

InitTranslate ==
    \E b \in TranslateBodies : InitFunction(<<Word(0, 11), Word(0, 12)>>, 0, b)

TranslateLoop ==
    /\ pc < Len(body)
    /\ panic = ""
    /\ WellTyped(body[pc + 1])
    /\ Commit(translate_op(Cur, body[pc + 1]), body[pc + 1])
    /\ pc' = pc + 1
    /\ last' = body[pc + 1]
    /\ prev' = last
    /\ UNCHANGED <<body, cvars, svars, saved_state>>

SpecTranslate == InitTranslate /\ [][TranslateLoop]_vars

----------------------------------------------------------------------------
\* C1: the function (a, b) -> a Op b returns the wrapping result a Op b
\* modulo 2^32 in RAX, with a as the left operand and b as the right one.
C1_BinopResult ==
    (body # <<>> /\ pc = Len(body) /\ panic = "")
        => rf[RAX] = RefOp(body[3].op, vlocals[1], vlocals[2])

\* a subtraction that wraps (a < b) has been compiled and run
C1_Witness ==
    /\ body # <<>> /\ pc = Len(body) /\ panic = ""
    /\ body[3].op = "sub"
    /\ vlocals[1] = Word(0, 1) /\ vlocals[2] = Word(0, 3)
    /\ rf[RAX] = Word(65535, 65534)

----------------------------------------------------------------------------
(* What the operand stack holds at run time.                               *)

\* number of Pop entries above entry j of the operand stack
PopsAbove(j) == Cardinality({k \in (j + 1)..Len(stack) : stack[k].tag = "Pop"})

\* where local k is read from: local_location, then adjusted_offset
LocalAddr(k) == rf[RSP][2] + depth * WORD_SIZE + local_location(locs, k).v

\* the run-time value entry j of the operand stack stands for
Denoted(j) ==
    LET e == stack[j]
    IN  CASE e.tag = "Temp"  -> rf[e.v]
          [] e.tag = "Pop"   -> IF rf[RSP][2] + WORD_SIZE * PopsAbove(j) \in DOMAIN mem
                                THEN mem[rf[RSP][2] + WORD_SIZE * PopsAbove(j)]
                                ELSE Garbage
          [] e.tag = "Local" -> IF local_location(locs, e.v).tag = "Reg"
                                THEN rf[local_location(locs, e.v).v]
                                ELSE IF LocalAddr(e.v) \in DOMAIN mem
                                     THEN mem[LocalAddr(e.v)] ELSE Garbage

\* every entry of the operand stack stands for the value WebAssembly gives it
Consistent ==
    /\ Len(stack) = Len(vstack)
    /\ \A j \in 1..Len(stack) : Denoted(j) = vstack[j]

\* the step compiles and runs a call (and the compilation did not panic)
CallStep == last'.op = "call" /\ pc' = pc + 1 /\ panic' = ""

\* C2: at the call instruction argument i (0-based) of call_direct holds the
\* value of the operand-stack entry that was at depth n-1-i before the call
\* sequence began, whatever form the argument entries have and whichever
\* scratch registers are live.
C2_ArgsAtCall ==
    [][(CallStep /\ Consistent) =>
          \A i \in 1..last'.n : call_args'[i] = vstack[Len(vstack) - last'.n + i]]_vars

\* C3: every operand-stack entry that is not consumed as an argument and is
\* held in a scratch register before the call sequence is, after
\* post_call_cleanup, still a Temp entry whose register holds the same value.
C3_TempsSurviveCall ==
    [][(CallStep /\ Consistent) =>
          \A j \in 1..(Len(stack) - last'.n) :
              stack[j].tag = "Temp" =>
                  /\ stack'[j].tag = "Temp"
                  /\ rf'[stack'[j].v] = vstack[j]]_vars

\* C4: a local spilled by free_arg_registers is read, at every later operator
\* boundary of the function body (before the epilogue releases the frame),
\* from the machine-stack slot the spill store wrote.
C4_SpilledLocalSlot ==
    last.op # "end" =>
        \A sp \in spill :
            locs[sp[1] + 1].tag = "Stack" => LocalAddr(sp[1]) = sp[2]

\* C5: at every operator boundary every register named by a Temp entry of
\* the operand stack is marked taken in the register pool.
C5_TempsTaken ==
    \A j \in 1..Len(stack) : stack[j].tag = "Temp" => stack[j].v \notin regs

----------------------------------------------------------------------------
(* The Microwasm converter (src/src/microwasm.rs).                         *)

I32 == "I32"
I64 == "I64"
F32 == "F32"
F64 == "F64"

\* Value: a constant of one of the four types, by its bits
Value(ty, bits) == [ty |-> ty, bits |-> bits]

\* a default that is not the zero of the type
default_for_type_one(ty) == Value(ty, 1)

\* Value::default_for_type
default_for_type(ty) ==
    CASE ty = I32 -> Value(I32, 0)
      [] ty = I64 -> Value(I64, 0)
      [] ty = F32 -> Value(F32, 0)
      [] ty = F64 -> Value(F64, 0)
EmptyBlockType == "EmptyBlockType"
BlockTypes == {EmptyBlockType, I32}

\* Type::from_wasm on a block type: nothing for EmptyBlockType
from_wasm(ty) == IF ty = EmptyBlockType THEN <<>> ELSE <<ty>>

\* Option: None, or Some(x)
None == <<>>
Some(x) == <<x>>

\* labels (id, NameTag) and branch targets
Header == "Header"
Else == "Else"
End_ == "End"
BrTarget_Return == <<"Return">>
BrTarget_Label(l) == <<"Label", l>>

\* Operator<L>, the operators of the emitted stream
Operator_end(params, label) ==
    [op |-> "Block", params |-> params, label |-> label,
     has_backwards_callers |-> FALSE, num_callers |-> None]
Operator_block(params, label) ==
    [op |-> "Block", params |-> params, label |-> label,
     has_backwards_callers |-> FALSE, num_callers |-> Some(1)]
Operator_loop_(params, label) ==
    [op |-> "Block", params |-> params, label |-> label,
     has_backwards_callers |-> TRUE, num_callers |-> None]
Operator_Label(l) == [op |-> "Label", label |-> l]
Operator_Br(t) == [op |-> "Br", target |-> t]
Operator_BrIf(then, else_) == [op |-> "BrIf", then |-> then, else_ |-> else_]
Operator_Drop(range) == [op |-> "Drop", range |-> range]
Operator_Const(value) == [op |-> "Const", value |-> value]
Operator_Unreachable == [op |-> "Unreachable"]
Operator_Cmp(c) == [op |-> "Cmp", cmp |-> c]
Operator_Pick(d) == [op |-> "Pick", depth |-> d]
Operator_Swap(d) == [op |-> "Swap", depth |-> d]

\* ControlFrame
ControlFrame(id, returns, kind, params) ==
    [id |-> id, returns |-> returns, kind |-> kind,
     needs_end_label |-> FALSE, params |-> params, has_else |-> FALSE]

\* only an If frame gets its End label
needs_end_label_of_if_only(f) == f.kind = "If"

needs_end_label(f) ==
    CASE f.kind = "Block" -> f.needs_end_label
      [] f.kind = "If"    -> TRUE
      [] OTHER            -> FALSE

\* a frame that forgets it was branched to
mark_branched_to_forgotten(f) == f

mark_branched_to(f) ==
    IF f.kind = "Block" THEN [f EXCEPT !.needs_end_label = TRUE] ELSE f

\* every frame, whatever its kind, is left through its End label
br_target_always_end(f) == BrTarget_Label(<<f.id, End_>>)

br_target(f) ==
    CASE f.kind = "Loop"     -> BrTarget_Label(<<f.id, Header>>)
      [] f.kind = "Function" -> BrTarget_Return
      [] OTHER               -> BrTarget_Label(<<f.id, End_>>)

\* if ty == EmptyBlockType { 0 } else { 1 }
returns_of(ty) == IF ty = EmptyBlockType THEN 0 ELSE 1

\* self.control_frames.iter().rev().nth(n): position of the n-th frame from the top
nth_block(frames, n) == Len(frames) - n

\* to_drop!(block): the range first_non_local_depth..=last_non_local_depth,
\* or None when a checked_sub fails or the range is empty
to_drop(block, stk, nl) ==
    IF /\ Len(stk) >= 1
       /\ Len(stk) - 1 >= nl + 1
       /\ block.returns <= Len(stk) - 1 - (nl + 1)
    THEN Some(<<block.returns, Len(stk) - 1 - (nl + 1)>>)
    ELSE None

\* MicrowasmConv::drop: remove the entries at depths range.start..=range.end
drop(stk, range) ==
    SubSeq(stk, 1, Len(stk) - 1 - range[2]) \o
    SubSeq(stk, Len(stk) - range[1] + 1, Len(stk))

drop_opt(stk, td) == IF td = None THEN stk ELSE drop(stk, td[1])

\* to_drop.into_iter().map(Operator::Drop)
DropOps(td) == IF td = None THEN <<>> ELSE <<Operator_Drop(td[1])>>

\* source operators (wasmparser::Operator)
WasmOp(op, ty, d) == [op |-> op, ty |-> ty, relative_depth |-> d]
WasmLocalOp(op, k) ==
    [op |-> op, ty |-> EmptyBlockType, relative_depth |-> 0, local_index |-> k]

\* a depth taken without the - 1 that makes the top of the stack depth 0
local_depth_unadjusted(stk, idx) == Len(stk) - idx

\* the comparison operators: the type compared and the relation
IntRels == {"Eq", "Ne", "LtS", "LtU", "GtS", "GtU", "LeS", "LeU", "GeS", "GeU"}
FloatRels == {"Eq", "Ne", "Lt", "Gt", "Le", "Ge"}
CmpOps ==
    {<<t, r>> : t \in {I32, I64}, r \in IntRels}
        \cup {<<t, r>> : t \in {F32, F64}, r \in FloatRels}
WasmCmpOp(c) ==
    [op |-> "Cmp", ty |-> EmptyBlockType, relative_depth |-> 0, cmp |-> c]

\* MicrowasmConv::local_depth on the stack stk (idx < Len(stk) for every
\* local of a validated function, so the u32 subtraction does not wrap)
local_depth(stk, idx) == Len(stk) - 1 - idx

\* op_sig: the operands an operator takes and leaves ("T": any one type)
OpSig(input, output) == [input |-> input, output |-> output]
op_sig(o) ==
    CASE o.op \in {"If", "BrIf"} -> OpSig(<<I32>>, <<>>)
      [] o.op = "Drop"           -> OpSig(<<"T">>, <<>>)
      [] o.op = "I32Const"       -> OpSig(<<>>, <<I32>>)
      [] o.op = "I32Add"         -> OpSig(<<I32, I32>>, <<I32>>)
      [] o.op = "Cmp"            ->
            (CASE o.cmp[1] = I32 -> OpSig(<<I32, I32>>, <<I32>>)
               [] o.cmp[1] = I64 -> OpSig(<<I64, I64>>, <<I32>>)
               [] o.cmp[1] = F32 -> OpSig(<<F32>>, <<I32>>)
               [] o.cmp[1] = F64 -> OpSig(<<F64>>, <<I32>>))
      [] o.op = "GetLocal"       -> OpSig(<<>>, <<ty_stack[o.local_index + 1]>>)
      [] o.op = "SetLocal"       -> OpSig(<<ty_stack[o.local_index + 1]>>, <<>>)
      [] o.op = "TeeLocal"       ->
            OpSig(<<ty_stack[o.local_index + 1]>>, <<ty_stack[o.local_index + 1]>>)
      [] OTHER                   -> OpSig(<<>>, <<>>)

Reverse(s) == [i \in 1..Len(s) |-> s[Len(s) + 1 - i]]

\* apply_op: pop the inputs (last first), push the outputs (last first);
\* ok is FALSE when a pop finds the stack empty ("Stack is empty")
apply_op(stk, sig) ==
    LET n == Len(sig.input)
    IN  IF Len(stk) < n THEN [ok |-> FALSE, stack |-> stk]
        ELSE LET popped   == SubSeq(stk, Len(stk) - n + 1, Len(stk))
                 ts       == {i \in 1..n : sig.input[i] = "T"}
                 ty_param == IF ts = {} THEN "unset" ELSE popped[Max(ts)]
                 outs     == [i \in 1..Len(sig.output) |->
                                IF sig.output[i] = "T" THEN ty_param ELSE sig.output[i]]
             IN  [ok |-> TRUE,
                  stack |-> SubSeq(stk, 1, Len(stk) - n) \o Reverse(outs)]

----------------------------------------------------------------------------
(* The source function: any well-typed operator sequence.  The operators   *)
(* self.internal.read() returns are those WebAssembly validation accepts   *)
(* after the ones already read.                                            *)

\* relative depths of the branches generated
Depths == {0, 1, 2}

\* a frame of the validator: the operand-stack height at its entry, its
\* result arity, whether its stack is polymorphic (after an unconditional
\* branch), whether control can reach the current point (dead), could reach
\* its entry (entry_dead), and whether a live branch targets its end (hit)
VFrame(kind, height, returns, dead) ==
    [kind |-> kind, height |-> height, returns |-> returns,
     poly |-> FALSE, dead |-> dead, entry_dead |-> dead, hit |-> FALSE]

VTop == v_frames[Len(v_frames)]
VAvail == Len(v_stack) - VTop.height
VCanPop(n) == VTop.poly \/ VAvail >= n
VPop(n) == SubSeq(v_stack, 1, Len(v_stack) - Min({n, VAvail}))
VEndOk == IF VTop.poly THEN VAvail <= VTop.returns ELSE VAvail = VTop.returns
VLabelArity(f) == IF f.kind = "loop" THEN 0 ELSE f.returns
VBase == SubSeq(v_stack, 1, VTop.height)
Types(n) == [i \in 1..n |-> I32]

\* the types of the declared locals: each group's type repeated count times
RECURSIVE local_types(_)
local_types(groups) ==
    IF groups = <<>> THEN <<>>
    ELSE [i \in 1..groups[1][1] |-> groups[1][2]] \o local_types(Tail(groups))

\* the declared type of local k of the function (parameters first)
VLocalType(k) == (func.params \o local_types(func.locals))[k + 1]

SourceOps ==
    {WasmOp(op, EmptyBlockType, 0) :
        op \in {"I32Const", "Drop", "Else", "End", "Return", "Unreachable"}}
    \cup {WasmOp(op, ty, 0) : op \in {"Block", "Loop", "If"}, ty \in BlockTypes}
    \cup {WasmOp(op, EmptyBlockType, d) : op \in {"Br", "BrIf"}, d \in Depths}

\* validation accepts o as the next operator
VOk(o) ==
    /\ v_frames # <<>>
    /\ CASE o.op = "Drop"   -> VCanPop(1)
         [] o.op = "If"     -> VCanPop(1)
         [] o.op = "Else"   -> VTop.kind = "if" /\ VEndOk
         [] o.op = "End"    -> VEndOk /\ (VTop.kind = "if" => VTop.returns = 0)
         [] o.op = "Br"     ->
                /\ o.relative_depth < Len(v_frames)
                /\ VCanPop(VLabelArity(v_frames[Len(v_frames) - o.relative_depth]))
         [] o.op = "BrIf"   ->
                /\ o.relative_depth < Len(v_frames)
                /\ VCanPop(1 + VLabelArity(v_frames[Len(v_frames) - o.relative_depth]))
         [] o.op = "Return" -> VCanPop(v_frames[1].returns)
         [] o.op = "GetLocal" -> o.local_index < num_locals
         [] o.op = "Cmp" ->
                /\ VCanPop(2)
                /\ \A i \in 0..1 :
                       VAvail > i => v_stack[Len(v_stack) - i] = o.cmp[1]
         [] o.op \in {"SetLocal", "TeeLocal"} ->
                /\ o.local_index < num_locals
                /\ VCanPop(1)
                /\ (VAvail >= 1 => v_stack[Len(v_stack)] = VLocalType(o.local_index))
         [] OTHER           -> TRUE

\* the validator's operand stack after o
VStackAfter(o) ==
    CASE o.op = "I32Const"               -> Append(v_stack, I32)
      [] o.op \in {"Drop", "If", "BrIf", "SetLocal"} -> VPop(1)
      [] o.op = "GetLocal"               -> Append(v_stack, VLocalType(o.local_index))
      [] o.op = "Cmp"                    -> Append(VPop(2), I32)
      [] o.op = "TeeLocal"               -> Append(VPop(1), VLocalType(o.local_index))
      [] o.op = "Else"                   -> VBase
      [] o.op = "End"                    -> VBase \o Types(VTop.returns)
      [] o.op \in {"Br", "Return", "Unreachable"} -> VBase
      [] OTHER                           -> v_stack

\* a live branch to the frame at relative depth d reaches that frame's end
VMarkHit(frames, d) ==
    IF ~frames[Len(frames)].dead /\ frames[Len(frames) - d].kind # "loop"
    THEN [frames EXCEPT ![Len(frames) - d].hit = TRUE]
    ELSE frames

\* control does not continue after the operator
VKill(frames) ==
    [frames EXCEPT ![Len(frames)] = [@ EXCEPT !.poly = TRUE, !.dead = TRUE]]

\* control reaches the point after the End of frame f
VLiveAfter(f) == ~f.dead \/ f.hit \/ (f.kind = "if" /\ ~f.entry_dead)

VPopFrame(frames) ==
    IF Len(frames) = 1 THEN <<>>
    ELSE [SubSeq(frames, 1, Len(frames) - 1) EXCEPT
              ![Len(frames) - 1].dead = ~VLiveAfter(frames[Len(frames)])]

\* the validator's control stack after o
VFramesAfter(o) ==
    CASE o.op \in {"Block", "Loop", "If"} ->
            Append(v_frames,
                   VFrame(CASE o.op = "Block" -> "block"
                            [] o.op = "Loop"  -> "loop"
                            [] OTHER          -> "if",
                          Len(VStackAfter(o)), returns_of(o.ty), VTop.dead))
      [] o.op = "Else" ->
            [v_frames EXCEPT ![Len(v_frames)] =
                [@ EXCEPT !.kind = "else", !.poly = FALSE,
                          !.hit = @ \/ ~VTop.dead, !.dead = VTop.entry_dead]]
      [] o.op = "End"  -> VPopFrame(v_frames)
      [] o.op = "Br"   -> VKill(VMarkHit(v_frames, o.relative_depth))
      [] o.op = "BrIf" -> VMarkHit(v_frames, o.relative_depth)
      [] o.op \in {"Return", "Unreachable"} -> VKill(v_frames)
      [] OTHER -> v_frames

\* self.internal.read() returns o
SourceRead(o) ==
    /\ read_op' = o
    /\ nread' = nread + 1
    /\ v_stack' = VStackAfter(o)
    /\ v_frames' = VFramesAfter(o)

\* control can reach the point after the operators read so far
VReachable == v_frames # <<>> /\ ~VTop.dead

----------------------------------------------------------------------------
(* MicrowasmConv::next, one action per source operator.                    *)

\* `next` returns Some(Ok(ops)) having read o
Yield(o, stk, frames, id, unr, done, ops) ==
    /\ ty_stack' = stk
    /\ control_frames' = frames
    /\ current_id' = id
    /\ unreachable' = unr
    /\ is_done' = done
    /\ stream' = stream \o ops
    /\ batch' = ops
    /\ eos' = FALSE
    /\ skipping' = FALSE
    /\ skip_depth' = 0
    /\ SourceRead(o)
    /\ UNCHANGED <<consts_to_emit, num_locals, func, conv_panic, bvars, svars>>

\* `next` returns None having read o without recording that it is done
ReturnNone_not_done(o, stk, frames) ==
    /\ ty_stack' = stk
    /\ control_frames' = frames
    /\ batch' = <<>>
    /\ eos' = TRUE
    /\ unreachable' = FALSE
    /\ skipping' = FALSE
    /\ skip_depth' = 0
    /\ SourceRead(o)
    /\ UNCHANGED <<is_done, current_id, stream, consts_to_emit, num_locals, func,
                   conv_panic, bvars, svars>>

\* `next` returns None having read o: the stream has ended
ReturnNone(o, stk, frames) ==
    /\ ty_stack' = stk
    /\ control_frames' = frames
    /\ is_done' = TRUE
    /\ batch' = <<>>
    /\ eos' = TRUE
    /\ unreachable' = FALSE
    /\ skipping' = FALSE
    /\ skip_depth' = 0
    /\ SourceRead(o)
    /\ UNCHANGED <<current_id, stream, consts_to_emit, num_locals, func, conv_panic, bvars, svars>>

\* `next` panics having read o
Abort(o, msg) ==
    /\ conv_panic' = msg
    /\ SourceRead(o)
    /\ UNCHANGED <<ty_stack, control_frames, current_id, unreachable, is_done, stream,
                   batch, eos, skipping, skip_depth, consts_to_emit, num_locals, func, bvars, svars>>

OnUnreachable(o, stk) ==
    Yield(o, stk, control_frames, current_id, TRUE, FALSE, <<Operator_Unreachable>>)

\* a Block frame that takes the current id without advancing it
OnBlock_reusing_id(o, stk) ==
    Yield(o, stk,
          Append(control_frames,
                 ControlFrame(current_id, returns_of(o.ty), "Block", <<>>)),
          current_id, FALSE, FALSE,
          <<Operator_end(stk \o from_wasm(o.ty), <<current_id, End_>>)>>)

OnBlock(o, stk) ==
    Yield(o, stk,
          Append(control_frames,
                 ControlFrame(current_id, returns_of(o.ty), "Block", <<>>)),
          current_id + 1, FALSE, FALSE,
          <<Operator_end(stk \o from_wasm(o.ty), <<current_id, End_>>)>>)

\* a Loop whose header is entered by falling through
OnLoop_falling_through(o, stk) ==
    Yield(o, stk,
          Append(control_frames,
                 ControlFrame(current_id, returns_of(o.ty), "Loop", <<>>)),
          current_id + 1, FALSE, FALSE,
          <<Operator_loop_(stk, <<current_id, Header>>),
            Operator_end(stk \o from_wasm(o.ty), <<current_id, End_>>),
            Operator_Label(<<current_id, Header>>)>>)

OnLoop(o, stk) ==
    Yield(o, stk,
          Append(control_frames,
                 ControlFrame(current_id, returns_of(o.ty), "Loop", <<>>)),
          current_id + 1, FALSE, FALSE,
          <<Operator_loop_(stk, <<current_id, Header>>),
            Operator_end(stk \o from_wasm(o.ty), <<current_id, End_>>),
            Operator_Br(BrTarget_Label(<<current_id, Header>>)),
            Operator_Label(<<current_id, Header>>)>>)

\* an If whose End label is declared without the result of the block
OnIf_end_without_result(o, stk) ==
    Yield(o, stk,
          Append(control_frames,
                 ControlFrame(current_id, returns_of(o.ty), "If", stk)),
          current_id + 1, FALSE, FALSE,
          <<Operator_block(stk, <<current_id, Header>>),
            Operator_block(stk, <<current_id, Else>>),
            Operator_end(stk, <<current_id, End_>>),
            Operator_BrIf(BrTarget_Label(<<current_id, Header>>),
                          BrTarget_Label(<<current_id, Else>>)),
            Operator_Label(<<current_id, Header>>)>>)

OnIf(o, stk) ==
    Yield(o, stk,
          Append(control_frames,
                 ControlFrame(current_id, returns_of(o.ty), "If", stk)),
          current_id + 1, FALSE, FALSE,
          <<Operator_block(stk, <<current_id, Header>>),
            Operator_block(stk, <<current_id, Else>>),
            Operator_end(stk \o from_wasm(o.ty), <<current_id, End_>>),
            Operator_BrIf(BrTarget_Label(<<current_id, Header>>),
                          BrTarget_Label(<<current_id, Else>>)),
            Operator_Label(<<current_id, Header>>)>>)

OnElseFrame(o, stk, block) ==
    IF block.kind # "If" THEN Abort(o, "called Option.unwrap on a None value")
    ELSE Yield(o, block.params,
               [control_frames EXCEPT ![Len(control_frames)].has_else = TRUE],
               current_id, FALSE, FALSE,
               DropOps(to_drop(block, stk, num_locals))
                   \o <<Operator_Br(BrTarget_Label(<<block.id, End_>>)),
                        Operator_Label(<<block.id, Else>>)>>)

OnElse(o, stk) ==
    IF control_frames = <<>> THEN Abort(o, "Failed")
    ELSE OnElseFrame(o, stk, control_frames[Len(control_frames)])

\* End: `block` is the frame popped, `frames` what is left, td = to_drop!(block)
OnEndFrame(o, stk, block, frames, td) ==
    IF block.kind = "If" /\ ~block.has_else
    THEN Yield(o, block.params, frames, current_id, FALSE, FALSE,
               DropOps(td)
                   \o <<Operator_Br(BrTarget_Label(<<block.id, Else>>)),
                        Operator_Label(<<block.id, Else>>),
                        Operator_Br(BrTarget_Label(<<block.id, End_>>)),
                        Operator_Label(<<block.id, End_>>)>>)
    ELSE IF frames = <<>>
    THEN Yield(o, drop_opt(stk, td), frames, current_id, FALSE, TRUE,
               <<Operator_Br(BrTarget_Return)>>)
    ELSE IF needs_end_label(block)
    THEN Yield(o, drop_opt(stk, td), frames, current_id, FALSE, FALSE,
               DropOps(td)
                   \o <<Operator_Br(BrTarget_Label(<<block.id, End_>>)),
                        Operator_Label(<<block.id, End_>>)>>)
    ELSE Yield(o, drop_opt(stk, td), frames, current_id, FALSE, FALSE, DropOps(td))

OnEnd(o, stk) ==
    IF control_frames = <<>> THEN Abort(o, "Failed")
    ELSE OnEndFrame(o, stk, control_frames[Len(control_frames)],
                    SubSeq(control_frames, 1, Len(control_frames) - 1),
                    to_drop(control_frames[Len(control_frames)], stk, num_locals))

OnBr(o, stk) ==
    IF o.relative_depth >= Len(control_frames)
    THEN Abort(o, "called Option.unwrap on a None value")
    ELSE Yield(o, stk,
               [control_frames EXCEPT ![nth_block(control_frames, o.relative_depth)] =
                                           mark_branched_to(@)],
               current_id, TRUE, FALSE,
               DropOps(to_drop(control_frames[nth_block(control_frames, o.relative_depth)],
                               stk, num_locals))
                   \o <<Operator_Br(br_target(
                          control_frames[nth_block(control_frames, o.relative_depth)]))>>)

\* a BrIf that is emitted without the drops its target requires
OnBrIf_without_drops(o, stk) ==
    IF o.relative_depth >= Len(control_frames)
    THEN Abort(o, "called Option.unwrap on a None value")
    ELSE Yield(o, stk,
               [control_frames EXCEPT ![nth_block(control_frames, o.relative_depth)] =
                                           mark_branched_to(@)],
               current_id + 1, FALSE, FALSE,
               <<Operator_block(stk, <<current_id, Header>>),
                 Operator_BrIf(br_target(
                                   control_frames[nth_block(control_frames, o.relative_depth)]),
                               BrTarget_Label(<<current_id, Header>>)),
                 Operator_Label(<<current_id, Header>>)>>)

OnBrIf(o, stk) ==
    IF o.relative_depth >= Len(control_frames)
    THEN Abort(o, "called Option.unwrap on a None value")
    ELSE IF to_drop(control_frames[nth_block(control_frames, o.relative_depth)],
                    stk, num_locals) # None
    THEN Abort(o, "not yet implemented")
    ELSE Yield(o, stk,
               [control_frames EXCEPT ![nth_block(control_frames, o.relative_depth)] =
                                           mark_branched_to(@)],
               current_id + 1, FALSE, FALSE,
               <<Operator_block(stk, <<current_id, Header>>),
                 Operator_BrIf(br_target(
                                   control_frames[nth_block(control_frames, o.relative_depth)]),
                               BrTarget_Label(<<current_id, Header>>)),
                 Operator_Label(<<current_id, Header>>)>>)

OnReturn(o, stk) ==
    IF control_frames = <<>>
    THEN Abort(o, "called Option.unwrap on a None value")
    ELSE Yield(o, stk, control_frames, current_id, TRUE, FALSE,
               DropOps(to_drop(control_frames[1], stk, num_locals))
                   \o <<Operator_Br(br_target(control_frames[1]))>>)

\* the operators that are lowered one to one
OnPlain(o, stk) ==
    Yield(o, stk, control_frames, current_id, FALSE, FALSE,
          CASE o.op = "I32Const" -> <<Operator_Const(Value(I32, 0))>>
            [] o.op = "Drop"     -> <<Operator_Drop(<<0, 0>>)>>
            [] o.op = "Cmp"      -> <<Operator_Cmp(o.cmp)>>
            [] OTHER             -> <<>>)

\* GetLocal, SetLocal, TeeLocal: Pick and Swap at the depth of the local.
\* A u32 subtraction that goes below zero panics in a build with overflow
\* checks and wraps in a build without them; a wrapped depth 2^32 - n is
\* written -n here.
OnLocal(o, stk) ==
    LET d == local_depth(stk, o.local_index)
        ops == CASE o.op = "GetLocal" -> <<Operator_Pick(d - 1)>>
                 [] o.op = "SetLocal" ->
                       <<Operator_Swap(d + 1), Operator_Drop(<<0, 0>>)>>
                 [] OTHER ->
                       <<Operator_Swap(d), Operator_Drop(<<0, 0>>),
                         Operator_Pick(d - 1)>>
        overflow == d < 0 \/ (o.op # "SetLocal" /\ d - 1 < 0)
    IN  \/ /\ overflow
           /\ Abort(o, "attempt to subtract with overflow")
        \/ Yield(o, stk, control_frames, current_id, FALSE, FALSE, ops)

Handle(o, a) ==
    IF ~a.ok THEN Abort(o, "Stack is empty")
    ELSE CASE o.op = "Unreachable" -> OnUnreachable(o, a.stack)
           [] o.op = "Block"       -> OnBlock(o, a.stack)
           [] o.op = "Loop"        -> OnLoop(o, a.stack)
           [] o.op = "If"          -> OnIf(o, a.stack)
           [] o.op = "Else"        -> OnElse(o, a.stack)
           [] o.op = "End"         -> OnEnd(o, a.stack)
           [] o.op = "Br"          -> OnBr(o, a.stack)
           [] o.op = "BrIf"        -> OnBrIf(o, a.stack)
           [] o.op = "Return"      -> OnReturn(o, a.stack)
           [] o.op \in {"GetLocal", "SetLocal", "TeeLocal"} -> OnLocal(o, a.stack)
           [] OTHER                -> OnPlain(o, a.stack)

\* op_sig indexes self.stack by a local index that is not on the stack
SigPanics(o) ==
    /\ o.op \in {"GetLocal", "SetLocal", "TeeLocal"}
    /\ o.local_index >= Len(ty_stack)

\* `next` can read another operator
Ready ==
    /\ ~is_done
    /\ conv_panic = ""
    /\ consts_to_emit = None
    /\ nread < MaxRead

\* the reachable path of `next`: read o, apply its signature, lower it
Convert(o) ==
    /\ Ready
    /\ ~unreachable /\ ~skipping
    /\ VOk(o)
    /\ IF SigPanics(o) THEN Abort(o, "index out of bounds")
       ELSE Handle(o, apply_op(ty_stack, op_sig(o)))

\* one iteration of the loop of `next` that skips dead code; d is the local
\* `depth` (0 when the loop is entered, which also clears self.unreachable)
Continue(o, d) ==
    /\ skipping' = TRUE
    /\ skip_depth' = d
    /\ unreachable' = FALSE
    /\ batch' = <<>>
    /\ SourceRead(o)
    /\ UNCHANGED <<ty_stack, control_frames, current_id, is_done, stream, eos,
                   consts_to_emit, num_locals, func, conv_panic, bvars, svars>>

\* an Else that ends the skipping at whatever depth it is met
SkipElse_at_any_depth(o, d) ==
    IF control_frames = <<>> THEN Abort(o, "Failed")
    ELSE Yield(o, ty_stack, control_frames, current_id, FALSE, FALSE,
               <<Operator_Label(<<control_frames[Len(control_frames)].id, Else>>)>>)

SkipElse(o, d) ==
    IF d # 0 THEN Continue(o, d)
    ELSE IF control_frames = <<>> THEN Abort(o, "Failed")
    ELSE Yield(o, ty_stack,
               [control_frames EXCEPT ![Len(control_frames)].has_else =
                    IF control_frames[Len(control_frames)].kind = "If" THEN TRUE ELSE @],
               current_id, FALSE, FALSE,
               <<Operator_Label(<<control_frames[Len(control_frames)].id, Else>>)>>)

\* an End at depth 0 that closes an If frame as it closes a Block frame
SkipEndFrame_without_else(o, block, frames, td) ==
    IF frames = <<>>
    THEN ReturnNone(o, drop_opt(ty_stack, td), frames)
    ELSE Yield(o, drop_opt(ty_stack, td), frames, current_id, FALSE, FALSE,
               <<Operator_Label(<<block.id, End_>>)>>)

\* End at depth 0: `block` is the frame popped, `frames` what is left
SkipEndFrame(o, block, frames, td) ==
    IF frames = <<>>
    THEN ReturnNone(o, drop_opt(ty_stack, td), frames)
    ELSE IF block.kind = "If" /\ ~block.has_else
    THEN Yield(o, block.params, frames, current_id, FALSE, FALSE,
               <<Operator_Label(<<block.id, Else>>),
                 Operator_Br(BrTarget_Label(<<block.id, End_>>)),
                 Operator_Label(<<block.id, End_>>)>>)
    ELSE Yield(o, drop_opt(ty_stack, td), frames, current_id, FALSE, FALSE,
               <<Operator_Label(<<block.id, End_>>)>>)

SkipEnd(o, d) ==
    IF d # 0 THEN Continue(o, d - 1)
    ELSE IF control_frames = <<>> THEN Abort(o, "Failed")
    ELSE SkipEndFrame(o, control_frames[Len(control_frames)],
                      SubSeq(control_frames, 1, Len(control_frames) - 1),
                      to_drop(control_frames[Len(control_frames)], ty_stack, num_locals))

SkipStep(o, d) ==
    CASE o.op \in {"Block", "Loop", "If"} -> Continue(o, d + 1)
      [] o.op = "Else"                    -> SkipElse(o, d)
      [] o.op = "End"                     -> SkipEnd(o, d)
      [] OTHER                            -> Continue(o, d)

\* the unreachable path of `next`
Skip(o) ==
    /\ Ready
    /\ unreachable \/ skipping
    /\ VOk(o)
    /\ SkipStep(o, IF skipping THEN skip_depth ELSE 0)

\* the first call of `next`: the constants of the declared locals
EmitConsts ==
    /\ ~is_done
    /\ conv_panic = ""
    /\ consts_to_emit # None
    /\ stream' = stream \o consts_to_emit[1]
    /\ batch' = consts_to_emit[1]
    /\ consts_to_emit' = None
    /\ UNCHANGED <<ty_stack, control_frames, unreachable, is_done, current_id, eos,
                   num_locals, func, conv_panic, skipping, skip_depth, read_op, nread,
                   v_frames, v_stack, bvars, svars>>

\* a call of `next` after the stream has ended: None again, nothing is read
NextDone ==
    /\ is_done
    /\ conv_panic = ""
    /\ batch' = <<>>
    /\ eos' = TRUE
    /\ UNCHANGED <<ty_stack, control_frames, unreachable, is_done, current_id,
                   consts_to_emit, num_locals, func, conv_panic, skipping, skip_depth,
                   stream, read_op, nread, v_frames, v_stack, bvars, svars>>

ConvUnreachable == Convert(WasmOp("Unreachable", EmptyBlockType, 0))
ConvBlock == \E ty \in BlockTypes : Convert(WasmOp("Block", ty, 0))
ConvLoop == \E ty \in BlockTypes : Convert(WasmOp("Loop", ty, 0))
ConvIf == \E ty \in BlockTypes : Convert(WasmOp("If", ty, 0))
ConvElse == Convert(WasmOp("Else", EmptyBlockType, 0))
ConvEnd == Convert(WasmOp("End", EmptyBlockType, 0))
ConvBr == \E d \in Depths : Convert(WasmOp("Br", EmptyBlockType, d))
ConvBrIf == \E d \in Depths : Convert(WasmOp("BrIf", EmptyBlockType, d))
ConvReturn == Convert(WasmOp("Return", EmptyBlockType, 0))
ConvPlain == \E op \in {"I32Const", "Drop"} : Convert(WasmOp(op, EmptyBlockType, 0))
SkipOp == \E o \in SourceOps : Skip(o)

\* the backend's variables while only the converter is exercised
BackendIdle ==
    /\ stack = <<>>
    /\ depth = 0
    /\ regs = {}
    /\ locs = <<>>
    /\ panic = ""
    /\ rf = <<>>
    /\ mem = <<>>
    /\ spill = {}
    /\ call_args = <<>>
    /\ call_rsp = Garbage
    /\ emitted = 0
    /\ vstack = <<>>
    /\ vlocals = <<>>
    /\ body = <<>>
    /\ pc = 0
    /\ last = NoOp
    /\ prev = NoOp
    /\ saved_state = <<>>

\* the functions converted: parameter types, declared locals as the groups
\* (count, type) of the locals reader, result types
ConvFunctions ==
    {[params |-> <<>>, locals |-> <<>>, returns |-> <<>>],
     [params |-> <<I32>>, locals |-> <<<<1, I32>>>>, returns |-> <<I32>>]}

\* MicrowasmConv::new
MicrowasmConv_new(f) ==
    LET locals == f.params \o local_types(f.locals)
        consts == [i \in 1..Len(local_types(f.locals)) |->
                      default_for_type(local_types(f.locals)[i])]
    IN  /\ func = f
        /\ ty_stack = locals
        /\ num_locals = Len(locals)
        /\ consts_to_emit = Some([i \in 1..Len(consts) |-> Operator_Const(consts[i])])
        /\ control_frames = <<ControlFrame(0, Len(f.returns), "Function", <<>>)>>
        /\ current_id = 1
        /\ is_done = FALSE
        /\ unreachable = FALSE
        /\ conv_panic = ""
        /\ skipping = FALSE
        /\ skip_depth = 0
        /\ stream = <<>>
        /\ batch = <<>>
        /\ eos = FALSE
        /\ read_op = [op |-> "none"]
        /\ nread = 0
        /\ v_frames = <<VFrame("function", 0, Len(f.returns), FALSE)>>
        /\ v_stack = <<>>
        /\ BackendIdle
        /\ SessionIdle

InitConv == \E f \in ConvFunctions : MicrowasmConv_new(f)

NextConv ==
    \/ EmitConsts
    \/ ConvUnreachable \/ ConvBlock \/ ConvLoop \/ ConvIf \/ ConvElse \/ ConvEnd
    \/ ConvBr \/ ConvBrIf \/ ConvReturn \/ ConvPlain
    \/ SkipOp
    \/ NextDone

SpecConv == InitConv /\ [][NextConv]_vars

----------------------------------------------------------------------------
(* SpecPrelude: functions with parameters and declared locals of all four  *)
(* types, in groups of one or more, converted over straight-line code and  *)
(* blocks.                                                                 *)

PreludeFunctions ==
    {[params |-> <<>>, locals |-> <<>>, returns |-> <<>>],
     [params |-> <<I32, I64>>, locals |-> <<>>, returns |-> <<I32>>],
     [params |-> <<>>, locals |-> <<<<2, I64>>>>, returns |-> <<>>],
     [params |-> <<I32>>, locals |-> <<<<1, F32>>, <<2, I32>>>>, returns |-> <<I32>>],
     [params |-> <<F64, I32>>, locals |-> <<<<1, I64>>, <<1, F64>>, <<1, I32>>>>,
      returns |-> <<>>]}

InitPrelude == \E f \in PreludeFunctions : MicrowasmConv_new(f)

NextPrelude == EmitConsts \/ ConvBlock \/ ConvPlain \/ ConvEnd \/ NextDone

SpecPrelude == InitPrelude /\ [][NextPrelude]_vars

----------------------------------------------------------------------------
(* The code generation session (CodeGenSession, src/src/backend.rs).       *)
(* The assembler is the sequence of the instructions emitted so far, each  *)
(* by the index of the function whose context emitted it; its offset is    *)
(* the length of that sequence.                                            *)

MaxFuncs == 3
MaxCode == 4

\* FuncDef::new: no offset, a new dynamic label that is not bound yet
FuncDef_new == [offset |-> None, label |-> None]

\* CodeGenSession::new
CodeGenSession_new(func_count) == [i \in 1..func_count |-> FuncDef_new]

\* a new_context that stamps the start of the buffer instead of the current offset
CodeGenSession_new_context_at_zero(defs, offset, func_idx) ==
    IF func_idx >= Len(defs)
    THEN [defs |-> defs, panic |-> "index out of bounds"]
    ELSE IF defs[func_idx + 1].label # None
    THEN [defs |-> defs, panic |-> "Duplicate label defined"]
    ELSE [defs  |-> [defs EXCEPT ![func_idx + 1] =
                        [offset |-> Some(0), label |-> Some(offset)]],
          panic |-> ""]

\* CodeGenSession::new_context: the function table after the call.  The
\* assembler refuses to bind a dynamic label a second time.
CodeGenSession_new_context(defs, offset, func_idx) ==
    IF func_idx >= Len(defs)
    THEN [defs |-> defs, panic |-> "index out of bounds"]
    ELSE IF defs[func_idx + 1].label # None
    THEN [defs |-> defs, panic |-> "Duplicate label defined"]
    ELSE [defs  |-> [defs EXCEPT ![func_idx + 1] =
                        [offset |-> Some(offset), label |-> Some(offset)]],
          panic |-> ""]

\* CodeGenSession::into_translated_code_section: offset.unwrap() of every FuncDef
into_translated_code_section(defs) ==
    IF \E i \in 1..Len(defs) : defs[i].offset = None
    THEN [section |-> None, panic |-> "called Option::unwrap() on a None value"]
    ELSE [section |-> Some([i \in 1..Len(defs) |-> defs[i].offset[1]]), panic |-> ""]

\* TranslatedCodeSection::func_start, as an offset into the buffer
func_start(idx) == section[1][idx + 1]

InitSession ==
    \E func_count \in 1..MaxFuncs :
        /\ assembler = <<>>
        /\ func_defs = CodeGenSession_new(func_count)
        /\ section = None
        /\ session_panic = ""
        /\ session_op = <<"new">>
        /\ BackendIdle
        /\ ConvIdle

SessionLive == session_panic = "" /\ section = None /\ func_defs # <<>>

NewContext ==
    \E func_idx \in 0..MaxFuncs :
        LET r == CodeGenSession_new_context(func_defs, Len(assembler), func_idx)
        IN  /\ SessionLive
            /\ func_defs' = r.defs
            /\ session_panic' = r.panic
            /\ session_op' = <<"new_context", func_idx>>
            /\ UNCHANGED <<assembler, section, bvars, cvars>>

\* the context created last emits an instruction
EmitCode ==
    /\ SessionLive
    /\ session_op[1] \in {"new_context", "emit"}
    /\ Len(assembler) < MaxCode
    /\ assembler' = Append(assembler, session_op[2])
    /\ session_op' = <<"emit", session_op[2]>>
    /\ UNCHANGED <<func_defs, section, session_panic, bvars, cvars>>

IntoTranslatedCodeSection ==
    LET r == into_translated_code_section(func_defs)
    IN  /\ SessionLive
        /\ section' = r.section
        /\ session_panic' = r.panic
        /\ session_op' = <<"into_translated_code_section">>
        /\ UNCHANGED <<assembler, func_defs, bvars, cvars>>

NextSession == NewContext \/ EmitCode \/ IntoTranslatedCodeSection

SpecSession == InitSession /\ [][NextSession]_vars

----------------------------------------------------------------------------
(* Claims about the converter *)

\* the source operator o has just been read and handled without a panic
Handled == nread' = nread + 1 /\ conv_panic' = ""

\* C6: after every source operator of a well-typed function the symbolic
\* type stack equals the stack the operator's signature predicts (the
\* locals, then the validator's operand stack), wherever control can reach.
C6_TypeStackPredicted ==
    (conv_panic = "" /\ nread > 0 /\ ~skipping /\ VReachable)
        => ty_stack = Types(num_locals) \o v_stack

\* position i of the stream declares a label that position j > i defines
Declares(i) == stream[i].op = "Block"
DefinedLater(i) ==
    \E j \in (i + 1)..Len(stream) :
        stream[j].op = "Label" /\ stream[j].label = stream[i].label

Targets(e) ==
    CASE e.op = "Br"   -> {e.target}
      [] e.op = "BrIf" -> {e.then, e.else_}
      [] OTHER         -> {}

\* some emitted branch targets label l
BranchedTo(l) ==
    \E k \in 1..Len(stream) : BrTarget_Label(l) \in Targets(stream[k])

\* label l is the End label of a Loop frame or of a Block frame (an If frame
\* also declares an Else label)
EndOfBlockOrLoop(l) ==
    /\ l[2] = End_
    /\ ~\E k \in 1..Len(stream) :
            stream[k].op = "Block" /\ stream[k].label = <<l[1], Else>>

DeclaredWithin(s, n, l) ==
    \E i \in 1..n : s[i].op = "Block" /\ s[i].label = l

\* label l is defined somewhere in stream s
DefinedIn(s, l) == \E j \in 1..Len(s) : s[j].op = "Label" /\ s[j].label = l

\* the frame owning label l is on the control stack before or after the step
OwnerOnStack(l) ==
    \/ \E k \in 1..Len(control_frames) : control_frames[k].id = l[1]
    \/ \E k \in 1..Len(control_frames') : control_frames'[k].id = l[1]

\* label l is the fall-through label a BrIf batch creates for itself
Synthetic(l) ==
    /\ read_op'.op = "BrIf"
    /\ l = <<current_id, Header>>
    /\ \E k \in 1..Len(batch') : batch'[k].op = "Block" /\ batch'[k].label = l

\* C8: every target of an emitted Br or BrIf is Return or a label declared
\* earlier in the stream (or in the same batch) whose frame is on the
\* control stack when the branch is emitted (or the fall-through label made
\* in the same batch), and when the stream ends every targeted label has
\* been defined by a Label operator.
C8_BranchTargets ==
    [][(Handled /\ stream' = stream \o batch') =>
          /\ \A k \in 1..Len(batch') : \A t \in Targets(batch'[k]) :
                 \/ t = BrTarget_Return
                 \/ /\ DeclaredWithin(stream', Len(stream) + k, t[2])
                    /\ OwnerOnStack(t[2]) \/ Synthetic(t[2])
          /\ is_done' =>
                 \A i \in 1..Len(stream') : \A t \in Targets(stream'[i]) :
                     t = BrTarget_Return \/ DefinedIn(stream', t[2])]_vars

\* a finished stream with a BrIf to the End label of a frame and a Br Return
C8_Witness ==
    /\ is_done
    /\ \E i \in 1..Len(stream) :
           /\ stream[i].op = "BrIf"
           /\ stream[i].then # BrTarget_Return
           /\ stream[i].then[2][2] = End_
    /\ \E i \in 1..Len(stream) :
           stream[i].op = "Br" /\ stream[i].target = BrTarget_Return

\* how many Block/Loop/If constructs of the source are open inside the frame
\* the converter is in
Nesting == Len(v_frames) - Len(control_frames)

\* the step reads one operator in unreachable mode
SkipStepTaken == (unreachable \/ skipping) /\ Handled

\* C9: in unreachable mode no operator is emitted for a skipped source
\* operator and no control frame is pushed or popped; the mode is left only
\* at the Else or End that closes the frame in which it was entered, so
\* nested constructs of any depth are skipped and a nested Else is ignored.
C9_UnreachableSkips ==
    [][SkipStepTaken =>
          IF read_op'.op \in {"Else", "End"} /\ Nesting = 0
          THEN ~skipping' /\ ~unreachable'
          ELSE /\ skipping'
               /\ stream' = stream
               /\ batch' = <<>>
               /\ control_frames' = control_frames
               /\ ty_stack' = ty_stack]_vars

\* the Else of an If nested two constructs deep has just been skipped
C9_Witness ==
    /\ skipping
    /\ conv_panic = ""
    /\ read_op.op = "Else"
    /\ Nesting >= 2

\* C10: an Else met at nesting depth zero in unreachable mode resumes
\* reachable mode at the frame's Else label with the symbolic type stack
\* equal to the params saved when the If frame was pushed.
C10_ElseRestoresParams ==
    [][(SkipStepTaken /\ read_op'.op = "Else" /\ Nesting = 0) =>
          /\ ~skipping'
          /\ batch' = <<Operator_Label(<<control_frames[Len(control_frames)].id, Else>>)>>
          /\ ty_stack' = control_frames[Len(control_frames)].params]_vars

\* the End closing the Function frame has just been read and handled
FunctionEnd ==
    /\ Handled
    /\ read_op'.op = "End"
    /\ Len(control_frames) = 1
    /\ control_frames' = <<>>

\* C11: the End that closes the Function frame ends the stream: in reachable
\* mode the batch is exactly [Br Return] and the converter is done, in
\* unreachable mode `next` returns end-of-stream without a batch; once done,
\* every call of `next` returns end-of-stream and reads nothing; and since
\* every other call reads a source operator (the prelude apart) and the End
\* of a well-nested body closes the Function frame, the stream is finite.
C11_FunctionEndTerminates ==
    [][/\ (FunctionEnd /\ ~unreachable /\ ~skipping) =>
              /\ batch' = <<Operator_Br(BrTarget_Return)>>
              /\ stream' = stream \o batch'
              /\ is_done' /\ ~eos'
       /\ (FunctionEnd /\ (unreachable \/ skipping)) =>
              /\ eos' /\ is_done'
              /\ stream' = stream
       /\ is_done =>
              /\ eos' /\ is_done'
              /\ stream' = stream /\ nread' = nread /\ read_op' = read_op
       /\ (~is_done /\ conv_panic = "" /\ consts_to_emit = None) =>
              nread' = nread + 1
       /\ (v_frames # <<>> /\ v_frames' = <<>>) => is_done']_vars

\* the stream has ended at a Function End met in reachable code, and `next`
\* has been called again
C11_Witness ==
    /\ is_done /\ eos
    /\ conv_panic = ""
    /\ read_op.op = "End"
    /\ control_frames = <<>>
    /\ Len(stream) >= 1
    /\ stream[Len(stream)] = Operator_Br(BrTarget_Return)

----------------------------------------------------------------------------
(* Claims about the frame and the stack pointer *)

\* start_function: the words of the locals frame (every argument of the
\* functions compiled here arrives in a register and gets a slot)
FrameWords == ((Len(vlocals) + 1) \div 2) * 2

\* the stack pointer immediately after the prologue (rbp holds the stack
\* pointer immediately after `push rbp` until the epilogue)
FrameBase == rf[RBP][2] - FrameWords * WORD_SIZE

\* C12: at every operator boundary the stack-depth counter is the number of
\* words by which the stack pointer is below the base of the locals frame.
C12_DepthIsRspOffset ==
    (panic = "" /\ last.op # "end") =>
        rf[RSP][2] = FrameBase - depth * WORD_SIZE

\* C13: immediately before every emitted call instruction the stack pointer
\* is 16-byte aligned (the stack pointer at function entry, just after the
\* caller's call pushed the return address, is 8 modulo 16).
C13_CallAligned ==
    (panic = "" /\ last.op = "call") =>
        (call_rsp[2] - (rf[RBP][2] + WORD_SIZE)) % (2 * WORD_SIZE) = WORD_SIZE

\* C14: after the epilogue's mov rsp, rbp; pop rbp the stack pointer and the
\* base pointer have their values at function entry, whatever was compiled
\* between start_function and epilogue.
C14_EpilogueRestores ==
    (panic = "" /\ last.op = "end") =>
        /\ rf[RSP] = Addr(0)
        /\ rf[RBP] = CallerRBP

\* C15: compiling a well-typed sequence of primitives never aborts because
\* the register pool is exhausted.
C15_NeverOutOfGPRs == panic # "ran out of free GPRs"

\* C16: the function (a, b) -> a == b returns 1 in RAX if a = b and 0
\* otherwise.
C16_EqResult ==
    (body # <<>> /\ body[3].op = "eq" /\ pc = Len(body) /\ panic = "")
        => rf[RAX] = (IF vlocals[1] = vlocals[2] THEN Word(0, 1) ELSE Word(0, 0))

\* the comparison of (1312, 1312) has been compiled and run and returned 1
C16_Witness ==
    /\ body # <<>> /\ body[3].op = "eq" /\ pc = Len(body) /\ panic = ""
    /\ vlocals = <<Word(0, 1312), Word(0, 1312)>>
    /\ rf[RAX] = Word(0, 1)

\* C17: get_local k immediately followed by set_local k is a no-op.  The
\* get_local step only appends Local(k) to the operand stack; the set_local k
\* step that finds Local(k) on top only removes it again.  Neither step emits
\* an instruction, changes the register pool, the stack depth, the locals
\* table, the machine registers or the memory, and neither aborts.
BackendUnchanged ==
    /\ regs' = regs /\ depth' = depth /\ locs' = locs /\ emitted' = emitted
    /\ rf' = rf /\ mem' = mem /\ panic' = ""

C17_GetSetLocalNoOp ==
    [][/\ (pc' = pc + 1 /\ last'.op = "get_local")
            => (stack' = Append(stack, Local(last'.n)) /\ BackendUnchanged)
       /\ (pc' = pc + 1 /\ last'.op = "set_local" /\ last.op = "get_local"
              /\ last.n = last'.n)
            => (stack' = Front(stack) /\ BackendUnchanged)]_vars

\* local k lives in a stack slot (spilled by an earlier call) when the pair is
\* translated
C17_Witness ==
    /\ panic = "" /\ prev.op = "get_local" /\ last.op = "set_local"
    /\ prev.n = last.n /\ locs[last.n + 1].tag = "Stack"

\* C18: a function that ends with i32.const K and returns the top of the
\* operand stack returns K in RAX, for every sampled 32-bit K, whether the
\* constant was pushed as a Temp register or spilled as a Pop entry.
C18_LiteralReturned ==
    (last.op = "end" /\ prev.op = "const") => (panic = "" /\ rf[RAX] = prev.w)

\* the returned constant was a Pop entry: the entry beneath it is a Pop as
\* well, so no scratch register was to spare when it was pushed
C18_Witness ==
    /\ panic = "" /\ last.op = "end" /\ prev.op = "const"
    /\ Len(stack) = 2 /\ stack[2].tag = "Pop"
    /\ prev.w = Word(65535, 65535) /\ rf[RAX] = prev.w

\* C19: the first batch the converter yields, before any source operator is
\* read, is the constant prelude: one Const per declared local, in
\* declaration order, each the zero value of the local's type, and none for
\* the parameters; afterwards the prelude is not yielded again: every later
\* call of `next` reads a source operator, ends the stream or aborts.
C19_ConstPrelude ==
    [][/\ consts_to_emit # None
            => /\ nread = 0 /\ stream = <<>>
               /\ nread' = 0 /\ consts_to_emit' = None
               /\ stream' = batch'
               /\ Len(batch') = Len(local_types(func.locals))
               /\ \A i \in 1..Len(batch') :
                      /\ batch'[i].op = "Const"
                      /\ batch'[i].value.ty = local_types(func.locals)[i]
                      /\ batch'[i].value.bits = 0
       /\ consts_to_emit = None
            => /\ consts_to_emit' = None
               /\ nread' = nread + 1 \/ eos' \/ conv_panic' # ""]_vars

\* a prelude of several constants of different types was yielded for a
\* function that has parameters, and source operators were converted after it
C19_Witness ==
    /\ Len(func.params) = 2 /\ Len(func.locals) = 3
    /\ consts_to_emit = None /\ conv_panic = "" /\ nread >= 2
    /\ Len(stream) > 3
    /\ SubSeq(stream, 1, 3) = <<Operator_Const(Value(I64, 0)),
                                 Operator_Const(Value(F64, 0)),
                                 Operator_Const(Value(I32, 0))>>

\* C20: call_direct accepts only a return arity of 0 or 1.  In every state
\* the translation can be in, a call with another return arity aborts with
\* "We don't support multiple return yet" and leaves the whole context (the
\* operand stack, the register pool, the depth, the locals table, the
\* emitted code, the machine) as it was; a translation aborts with that
\* message exactly when the operator translated last is such a call.
MultipleReturn == "We don't support multiple return yet"

C20_MultipleReturnRejected ==
    /\ panic = "" =>
          \A a \in 0..2, r \in {2, 3} :
              call_direct(Cur, a, r, Word(0, 31)) = [Cur EXCEPT !.panic = MultipleReturn]
    /\ (last.op = "call" /\ last.m \notin {0, 1}) => panic = MultipleReturn
    /\ panic = MultipleReturn => (last.op = "call" /\ last.m \notin {0, 1})

\* a call of a function with two results was translated with one argument
\* on the operand stack held in a scratch register
C20_Witness ==
    /\ panic = MultipleReturn /\ last.op = "call" /\ last.m = 2 /\ last.n = 1
    /\ stack # <<>> /\ Last(stack).tag = "Temp" /\ emitted > 0

\* C21: new_context(i) records the assembler's offset at the call as the
\* offset of function i and binds its label there, leaving the other
\* functions' records alone; the instructions function i emits start at that
\* offset; into_translated_code_section returns exactly the recorded offsets,
\* and aborts when some function never had a context created.
C21_FunctionOffsets ==
    [][/\ (session_op'[1] = "new_context" /\ session_panic' = "")
            => /\ func_defs'[session_op'[2] + 1] =
                     [offset |-> Some(Len(assembler)), label |-> Some(Len(assembler))]
               /\ \A i \in 1..Len(func_defs) :
                      i # session_op'[2] + 1 => func_defs'[i] = func_defs[i]
       /\ session_panic' = ""
            => \A i \in 1..Len(func_defs') : \A k \in 1..Len(assembler') :
                  assembler'[k] = i - 1 =>
                      /\ func_defs'[i].offset # None
                      /\ func_defs'[i].offset[1] < k
                      /\ assembler'[func_defs'[i].offset[1] + 1] = i - 1
       /\ session_op'[1] = "into_translated_code_section"
            => IF \A i \in 1..Len(func_defs) : func_defs[i].offset # None
               THEN /\ section' # None /\ session_panic' = ""
                    /\ \A i \in 1..Len(func_defs) :
                          Some(section'[1][i]) = func_defs[i].offset
               ELSE section' = None /\ session_panic' # ""]_vars

\* three functions, given their contexts out of order and with code in
\* between, and the section made of them
C21_Witness ==
    /\ section # None /\ Len(func_defs) = 3
    /\ func_start(2) < func_start(0) /\ func_start(0) < func_start(1)
    /\ assembler[func_start(0) + 1] = 0

\* C22: an operator the translation loop does not implement is not a
\* compile-time error: the loop emits one trap for it, changes nothing else
\* and goes on, and the translation of a function that has such an operator
\* does not abort.
C22_UnsupportedNotAnError ==
    [][/\ (pc' = pc + 1 /\ last'.op \notin Implemented)
            => (emitted' = emitted + 1 /\ stack' = stack /\ regs' = regs
                /\ depth' = depth /\ locs' = locs)
       /\ (\E i \in 1..Len(body) : body[i].op \notin Implemented) => panic' = ""]_vars

\* C23: after a call has been translated, whatever the return arity of the
\* callee, no operand-stack entry beneath the call's results is located in
\* RAX: the entries that were live across the call have been moved out of
\* the caller-saved return register.
C23_NoLiveValueInRAX ==
    (panic = "" /\ last.op = "call") =>
        \A j \in 1..(Len(stack) - last.m) : location(stack[j], locs) # Reg(RAX)

\* C24: at every point of the compilation of a function with a arguments
\* and d declared locals, distinct local indices below a + d have distinct
\* locations: no two locals share a register or a machine-stack slot.
C24_LocalsDistinct ==
    panic = "" =>
        \A i \in 0..(Len(vlocals) - 1) : \A j \in 0..(Len(vlocals) - 1) :
            i # j => local_location(locs, i) # local_location(locs, j)

\* C25: a value pushed by get_local k is the value local k held when it was
\* pushed.  When set_local k is translated while a Local(k) entry pushed
\* earlier is still on the operand stack (and every entry stood for its
\* WebAssembly value before), the entry still stands for the old value of
\* the local afterwards, not for the value just stored.
C25_GetLocalIsAValue ==
    [][(pc' = pc + 1 /\ last'.op = "set_local" /\ panic' = "" /\ Consistent) =>
          \A j \in 1..Len(stack') :
              stack'[j] = Local(last'.n) => (Denoted(j))' = vstack[j]]_vars

\* C26: no primitive leaks a register.  After every operator, each scratch
\* register that is not in the free pool is referenced by exactly one Temp
\* entry of the operand stack.
C26_NoRegisterLeak ==
    panic = "" =>
        \A g \in SeqRange(SCRATCH_REGS) :
            g \notin regs => Cardinality({j \in 1..Len(stack) : stack[j] = Temp(g)}) = 1

\* C27: in every state the translation can be in, push_i32(Temp(g)) of a
\* taken register g keeps the entry as Temp(g) and does nothing else when
\* the pool still has a free register; otherwise it emits push g, releases
\* g, records Pop and adds one to the depth.  pop_i32 returns a Local or
\* Temp entry as it is, emitting nothing and leaving the depth alone; for a
\* Pop entry it subtracts one from the depth and emits a pop into a
\* register newly taken from the pool.  The operators that push a constant
\* and pop an operand behave accordingly.
PushedTemp(g) ==
    LET c == push_i32(Cur, Temp(g))
    IN  IF regs # {}
        THEN c = [Cur EXCEPT !.stack = Append(@, Temp(g))]
        ELSE /\ c.panic = ""
             /\ c.stack = Append(stack, Pop)
             /\ c.depth = depth + 1
             /\ c.free = {g}
             /\ c.emitted = emitted + 1
             /\ c.rf = [rf EXCEPT ![RSP] = Addr(rf[RSP][2] - WORD_SIZE)]
             /\ c.mem[rf[RSP][2] - WORD_SIZE] = rf[g]
             /\ c.locs = locs

Popped ==
    LET p   == pop_i32(Cur)
        top == Last(stack)
    IN  IF top.tag # "Pop"
        THEN p.val = top /\ p.c = [Cur EXCEPT !.stack = Front(@)]
        ELSE /\ p.c.panic = ""
             /\ p.c.stack = Front(stack)
             /\ p.c.depth = depth - 1
             /\ p.c.emitted = emitted + 1
             /\ p.val.tag = "Temp" /\ p.val.v \in regs
             /\ p.c.free = regs \ {p.val.v}
             /\ p.c.rf = [rf EXCEPT ![RSP] = Addr(rf[RSP][2] + WORD_SIZE),
                                    ![p.val.v] = mem[rf[RSP][2]]]
             /\ p.c.locs = locs

C27_PushPop ==
    [][/\ panic = "" =>
            /\ \A g \in (SeqRange(SCRATCH_REGS) \cup {RAX}) \ regs : PushedTemp(g)
            /\ stack # <<>> => Popped
       /\ (pc' = pc + 1 /\ last'.op = "const" /\ panic' = "") =>
            IF Cardinality(regs) >= 2
            THEN stack' = Append(stack, Temp(Min(regs))) /\ depth' = depth
            ELSE stack' = Append(stack, Pop) /\ depth' = depth + 1 /\ regs' = regs
       /\ (pc' = pc + 1 /\ last'.op = "set_local" /\ panic' = ""
              /\ Last(stack) = Pop) =>
            depth' = depth - 1 /\ stack' = Front(stack)]_vars

\* i32.const; i32.const; set_local: the second constant was spilled as a Pop
\* entry and popped again
C27_Witness ==
    /\ panic = "" /\ pc = 3 /\ prev.op = "const" /\ last.op = "set_local"
    /\ stack = <<Temp(R10)>> /\ depth = 0 /\ regs = {R11}

\* C28: an entry of the locals table changes only in free_arg_registers,
\* that is only while a call with arguments is translated, and only from a
\* register to a stack slot; the slot then holds the value the register had,
\* stored before the entry was rewritten.  set_local, the binary operators,
\* constants, pushes and pops and restore_block_state leave the table as
\* it is.
C28_LocalsTable ==
    [][/\ Len(locs') = Len(locs)
       /\ \A i \in 1..Len(locs) :
             locs'[i] # locs[i] =>
                /\ last'.op = "call" /\ last'.n > 0
                /\ locs[i].tag = "Reg" /\ locs'[i].tag = "Stack"
                /\ \E sp \in spill' \ spill :
                      sp[1] = i - 1 /\ mem'[sp[2]] = rf[locs[i].v]]_vars

\* the parameter was spilled by a call, and the block state was put back
\* afterwards
C28_Witness ==
    /\ panic = "" /\ locs = <<Stack(0)>> /\ last.op = "restore_block_state"
    /\ prev.op = "call"

\* C29: after start_function(a, d) the frame is 8 * E bytes, E being
\* d + min(a, 6) rounded up to an even number (rbp is the entry rsp less 8,
\* rsp is rbp less the frame size, and no sub is emitted for an empty
\* frame); local i < min(a, 6) is in the i-th of RDI, RSI, RDX, RCX, R8, R9;
\* stack-passed argument j is local 6 + j at Stack(8 * (j + 2) + framesize),
\* which addresses rbp + 16 + 8 * j, the slot the caller put it in; and a
\* function that returns parameter k returns the value passed for it.
FrameArity == Len(locs)
FrameDeclared == Len(vlocals) - Len(locs)
FrameSlots ==
    LET n == FrameDeclared + (IF FrameArity < 6 THEN FrameArity ELSE 6)
    IN  IF n % 2 = 0 THEN n ELSE n + 1

C29_Frame ==
    /\ pc = 0 =>
          /\ rf[RBP] = Addr(0 - 8)
          /\ rf[RSP] = Addr(0 - 8 - 8 * FrameSlots)
          /\ emitted = (IF FrameSlots = 0 THEN 2 ELSE 3)
          /\ \A i \in 0..(FrameArity - 1) :
                IF i < 6
                THEN locs[i + 1] = Reg(<<RDI, RSI, RDX, RCX, R8, R9>>[i + 1])
                ELSE /\ locs[i + 1] = Stack(8 * ((i - 6) + 2) + 8 * FrameSlots)
                     /\ rf[RSP][2] + locs[i + 1].v = rf[RBP][2] + 16 + 8 * (i - 6)
                     /\ mem[rf[RSP][2] + locs[i + 1].v] = vlocals[i + 1]
    /\ (last.op = "end" /\ FrameArity > 0) =>
          (panic = "" /\ rf[RAX] = vlocals[prev.n + 1])

\* a function of eight parameters and one declared local returned its
\* second stack-passed parameter
C29_Witness ==
    /\ last.op = "end" /\ panic = "" /\ FrameArity = 8 /\ FrameDeclared = 1
    /\ prev.n = 7 /\ rf[RAX] = Word(0, 108)

\* C30: when Return is converted in reachable code, the Drop emitted before
\* Br Return covers every operand that lies above the locals and below the
\* top `returns` values: with n pending operands and r = returns of the
\* function frame, the batch is Drop(r..=n-1) followed by Br Return when
\* n > r, and Br Return alone when n = r.
C30_ReturnDrops ==
    [][(nread' = nread + 1 /\ read_op'.op = "Return" /\ ~unreachable
          /\ ~skipping /\ conv_panic' = "") =>
          LET n == Len(ty_stack) - num_locals
              r == control_frames[1].returns
          IN  batch' = (IF n > r THEN <<Operator_Drop(<<r, n - 1>>)>> ELSE <<>>)
                           \o <<Operator_Br(BrTarget_Return)>>]_vars

----------------------------------------------------------------------------
(* SpecLocalOps: GetLocal, SetLocal and TeeLocal converted in functions    *)
(* with parameters and declared locals, in straight-line code, inside      *)
(* blocks and after dead code.  The emitted operators are run on a stack   *)
(* of tokens by the meaning the Operator enum documents for Pick, Swap,    *)
(* Drop and for the parameters a Block declares for its label.             *)

LocalIdx == {0, 1, 2}

LocalOpFunctions ==
    {[params |-> <<I32>>, locals |-> <<<<1, I64>>>>, returns |-> <<>>],
     [params |-> <<I32, I64>>, locals |-> <<<<1, I32>>>>, returns |-> <<>>]}

InitLocalOps == \E f \in LocalOpFunctions : MicrowasmConv_new(f)

ConvGetLocal == \E k \in LocalIdx : Convert(WasmLocalOp("GetLocal", k))
ConvSetLocal == \E k \in LocalIdx : Convert(WasmLocalOp("SetLocal", k))
ConvTeeLocal == \E k \in LocalIdx : Convert(WasmLocalOp("TeeLocal", k))

NextLocalOps ==
    \/ EmitConsts
    \/ ConvGetLocal \/ ConvSetLocal \/ ConvTeeLocal
    \/ ConvPlain \/ ConvBlock \/ ConvEnd \/ ConvUnreachable
    \/ SkipOp
    \/ NextDone

SpecLocalOps == InitLocalOps /\ [][NextLocalOps]_vars

\* Operator::Pick, Operator::Swap, Operator::Drop on a stack s (top last);
\* ok is FALSE when the operator reaches below the bottom of s
run_op(r, o) ==
    LET s == r.stack
        n == Len(s)
    IN  CASE ~r.ok -> r
          [] o.op = "Pick" ->
                IF o.depth \in 0..(n - 1)
                THEN [ok |-> TRUE, stack |-> Append(s, s[n - o.depth]),
                      slots |-> r.slots \cup {n - o.depth}]
                ELSE [r EXCEPT !.ok = FALSE]
          [] o.op = "Swap" ->
                IF o.depth \in 0..(n - 1)
                THEN [ok |-> TRUE,
                      stack |-> [s EXCEPT ![n] = s[n - o.depth],
                                          ![n - o.depth] = s[n]],
                      slots |-> r.slots \cup {n - o.depth}]
                ELSE [r EXCEPT !.ok = FALSE]
          [] o.op = "Drop" ->
                IF o.range[2] < n
                THEN [r EXCEPT !.stack = drop(s, o.range)]
                ELSE [r EXCEPT !.ok = FALSE]
          [] OTHER -> r

\* the operators ops run in order on s; slots collects the stack indices
\* (1 = bottom) that the Picks and Swaps designate when they execute
RECURSIVE run(_, _)
run(r, ops) ==
    IF ops = <<>> THEN r ELSE run(run_op(r, Head(ops)), Tail(ops))

Tokens(n) == [i \in 1..n |-> i]
RunBatch(s, ops) == run([ok |-> TRUE, stack |-> s, slots |-> {}], ops)

\* the parameters the stream ops declares for label l: the height of the
\* stack where the label is defined (h when nothing declares l)
LabelParams(ops, l, h) ==
    LET ds == {j \in 1..Len(ops) : ops[j].op = "Block" /\ ops[j].label = l}
    IN  IF ds = {} THEN h ELSE Len(ops[CHOOSE j \in ds : TRUE].params)

\* the height of the stack (locals included) on which the operator after
\* ops[1..] executes, h being the height before ops[i]
RECURSIVE rt_height(_, _, _)
rt_height(ops, i, h) ==
    IF i > Len(ops) THEN h
    ELSE LET o == ops[i]
         IN  rt_height(ops, i + 1,
                CASE o.op \in {"Const", "Pick"} -> h + 1
                  [] o.op = "Drop"  -> h - (o.range[2] - o.range[1] + 1)
                  [] o.op = "BrIf"  -> h - 1
                  [] o.op = "Label" -> LabelParams(ops, o.label, h)
                  [] OTHER          -> h)

\* the height of the stack after the stream emitted so far: the parameters
\* are on it at entry
StackHeight == rt_height(stream, 1, Len(func.params))

\* the step converts the local operator opname in reachable code
LocalOpConverted(opname) ==
    /\ nread' = nread + 1
    /\ read_op'.op = opname
    /\ ~unreachable /\ ~skipping
    /\ conv_panic' = ""

\* C31: the Picks and Swaps emitted for GetLocal k, SetLocal k and TeeLocal k
\* designate the slot of local k (index k from the bottom) of the stack as it
\* stands when they execute. GetLocal emits Pick{L - k - 1} for the stack
\* length L before the operator and pushes a copy of local k; SetLocal moves
\* the former top into the slot of local k and lowers the stack by one;
\* TeeLocal does the same and leaves the height as it was, the former top
\* still on top.
C31_LocalSlots ==
    [][\A opname \in {"GetLocal", "SetLocal", "TeeLocal"} :
          LocalOpConverted(opname) =>
             LET L == StackHeight
                 k == read_op'.local_index
                 S == Tokens(L)
                 R == RunBatch(S, batch')
             IN  /\ R.ok
                 /\ R.slots = {k + 1}
                 /\ CASE opname = "GetLocal" ->
                            /\ batch' = <<Operator_Pick(L - k - 1)>>
                            /\ R.stack = Append(S, S[k + 1])
                      [] opname = "SetLocal" ->
                            R.stack = SubSeq([S EXCEPT ![k + 1] = S[L]], 1, L - 1)
                      [] OTHER ->
                            R.stack = [S EXCEPT ![k + 1] = S[L]]]_vars

\* C32 as stated: SetLocal k is lowered to Swap{depth}, Drop(0..=0) with
\* depth = current_stack_len - k + 1, current_stack_len being the length of
\* the symbolic stack when the depth is computed (after the signature of
\* SetLocal has been applied).
C32_SetLocalDepthPlusOne ==
    [][LocalOpConverted("SetLocal") =>
          batch' = <<Operator_Swap(Len(ty_stack') - read_op'.local_index + 1),
                     Operator_Drop(<<0, 0>>)>>]_vars

\* C32 amended: SetLocal k is lowered to Swap{depth}, Drop(0..=0) with
\* depth = current_stack_len - k, current_stack_len being the length of the
\* symbolic stack after the signature of SetLocal has been applied; that is
\* local_depth(k) + 1 = (current_stack_len - 1 - k) + 1.
C32_SetLocalDepth ==
    [][LocalOpConverted("SetLocal") =>
          batch' = <<Operator_Swap(Len(ty_stack') - read_op'.local_index),
                     Operator_Drop(<<0, 0>>)>>]_vars

\* a SetLocal of the first local with another operand left under the value
C32_Witness ==
    /\ read_op.op = "SetLocal"
    /\ read_op.local_index = 0
    /\ conv_panic = ""
    /\ Len(batch) = 2
    /\ Len(ty_stack) = num_locals + 1

\* the number of Label operators of stream s that define label l
Definitions(s, l) ==
    Cardinality({j \in 1..Len(s) : s[j].op = "Label" /\ s[j].label = l})

\* the step processes the End that closes an If frame that had no Else
EndOfIfWithoutElse ==
    /\ Handled
    /\ read_op'.op = "End"
    /\ Len(control_frames') = Len(control_frames) - 1
    /\ control_frames[Len(control_frames)].kind = "If"
    /\ ~control_frames[Len(control_frames)].has_else

\* the empty else arm of the frame with the given id
EmptyElse(id) ==
    <<Operator_Br(BrTarget_Label(<<id, Else>>)),
      Operator_Label(<<id, Else>>),
      Operator_Br(BrTarget_Label(<<id, End_>>)),
      Operator_Label(<<id, End_>>)>>

\* C33: the End of an If frame that had no Else synthesizes an empty else
\* arm. In reachable mode the batch is an optional Drop, then Br Else,
\* Label Else, Br End, Label End; in unreachable mode it is Label Else,
\* Br End, Label End. In both modes the symbolic stack afterwards is the
\* params saved in the frame, and the stream defines the Else label and the
\* End label of the frame exactly once.
C33_IfWithoutElse ==
    [][EndOfIfWithoutElse =>
          LET block == control_frames[Len(control_frames)]
          IN  /\ IF ~unreachable /\ ~skipping
                 THEN \/ batch' = EmptyElse(block.id)
                      \/ /\ Len(batch') = 5
                         /\ batch'[1].op = "Drop"
                         /\ SubSeq(batch', 2, 5) = EmptyElse(block.id)
                 ELSE batch' = SubSeq(EmptyElse(block.id), 2, 4)
              /\ ty_stack' = block.params
              /\ Definitions(stream', <<block.id, Else>>) = 1
              /\ Definitions(stream', <<block.id, End_>>) = 1]_vars

\* an If without Else closed in unreachable mode, with an operand left in
\* the then-arm: the stack is back at the saved params
C33_Witness ==
    /\ read_op.op = "End"
    /\ conv_panic = ""
    /\ Len(batch) = 3
    /\ batch[1].op = "Label" /\ batch[1].label[2] = Else
    /\ batch[3].op = "Label" /\ batch[3].label[2] = End_
    /\ Len(stream) >= 10

\* no Block or Label operator of stream s carries the id
FreshId(s, id) ==
    \A j \in 1..Len(s) : s[j].op \in {"Block", "Label"} => s[j].label[1] # id

\* C34: If{ty} converted in reachable code pops the i32 condition, pushes an
\* If frame with has_else = FALSE whose params are the stack after the pop,
\* and emits Block(params, (id, Header)), Block(params, (id, Else)),
\* Block(params plus the result type, (id, End)), BrIf{then: (id, Header),
\* else_: (id, Else)}, Label((id, Header)) in that order, id being an id no
\* earlier operator of the stream carries.
C34_IfLowering ==
    [][(Handled /\ read_op'.op = "If" /\ ~unreachable /\ ~skipping) =>
          LET id == current_id
              params == SubSeq(ty_stack, 1, Len(ty_stack) - 1)
              frame == control_frames'[Len(control_frames')]
          IN  /\ ty_stack[Len(ty_stack)] = I32
              /\ ty_stack' = params
              /\ control_frames' = Append(control_frames, frame)
              /\ frame.kind = "If" /\ ~frame.has_else
              /\ frame.id = id /\ frame.params = params
              /\ Len(batch') = 5
              /\ \A i \in 1..3 : batch'[i].op = "Block"
              /\ batch'[1].params = params /\ batch'[1].label = <<id, Header>>
              /\ batch'[2].params = params /\ batch'[2].label = <<id, Else>>
              /\ batch'[3].params = params \o from_wasm(read_op'.ty)
              /\ batch'[3].label = <<id, End_>>
              /\ batch'[4] = Operator_BrIf(BrTarget_Label(<<id, Header>>),
                                           BrTarget_Label(<<id, Else>>))
              /\ batch'[5] = Operator_Label(<<id, Header>>)
              /\ FreshId(stream, id)]_vars

\* an If with a result converted inside another frame
C34_Witness ==
    /\ read_op.op = "If"
    /\ read_op.ty = I32
    /\ conv_panic = ""
    /\ Len(batch) = 5
    /\ Len(batch[3].params) = Len(batch[1].params) + 1
    /\ Len(control_frames) >= 3

\* the step converts a Br or BrIf in reachable code whose target is the
\* frame at position k of the control stack
BranchConvertedTo(k) ==
    /\ Handled
    /\ read_op'.op \in {"Br", "BrIf"}
    /\ ~unreachable /\ ~skipping
    /\ k = nth_block(control_frames, read_op'.relative_depth)

\* the step processes the End that closes the Block frame on top of the
\* control stack
EndOfBlock ==
    /\ Handled
    /\ read_op'.op = "End"
    /\ Len(control_frames') = Len(control_frames) - 1
    /\ control_frames[Len(control_frames)].kind = "Block"

\* C35: a Block frame that is the target of a converted Br or BrIf is marked
\* branched-to, at whatever depth of the control stack it lies; the mark
\* stays while the frame is on the stack; and when the End of a marked frame
\* is processed, in reachable or in unreachable mode, the batch holds the
\* Label (id, End) of the frame, which the stream then defines exactly once.
C35_BranchedToGetsEndLabel ==
    [][/\ \A k \in 1..Len(control_frames) :
              (BranchConvertedTo(k) /\ control_frames[k].kind = "Block") =>
                  control_frames'[k].needs_end_label
       /\ \A k \in 1..Len(control_frames') :
              (k <= Len(control_frames) /\ control_frames[k].kind = "Block"
                  /\ control_frames[k].needs_end_label) =>
                  control_frames'[k].needs_end_label
       /\ (EndOfBlock /\ control_frames[Len(control_frames)].needs_end_label) =>
              LET l == <<control_frames[Len(control_frames)].id, End_>>
              IN  /\ Definitions(batch', l) = 1
                  /\ Definitions(stream', l) = 1]_vars

\* the End of a Block frame converted in reachable code after a Br that
\* targets the frame from inside a nested frame
C35_Witness ==
    /\ read_op.op = "End"
    /\ conv_panic = ""
    /\ Len(batch) >= 2
    /\ batch[Len(batch)].op = "Label"
    /\ batch[Len(batch)].label[2] = End_
    /\ batch[Len(batch) - 1].op = "Br"
    /\ \E j \in 1..Len(stream) :
          /\ stream[j].op = "Br"
          /\ j < Len(stream) - 1
          /\ stream[j].target = BrTarget_Label(batch[Len(batch)].label)
          /\ \E i \in 1..(j - 1) :
                /\ stream[i].op = "Block"
                /\ stream[i].label[2] = End_
                /\ stream[i].label[1] > batch[Len(batch)].label[1]
                /\ ~DefinedIn(SubSeq(stream, 1, j), stream[i].label)
    /\ ~\E j \in 1..Len(stream) :
          stream[j].op = "Block" /\ stream[j].label = <<batch[Len(batch)].label[1], Else>>

\* the step reads a BrIf in reachable code and finds its condition on the
\* symbolic stack
BrIfRead ==
    /\ nread' = nread + 1
    /\ read_op'.op = "BrIf"
    /\ ~unreachable /\ ~skipping
    /\ ty_stack # <<>>

\* C36: a BrIf whose target frame requires drops (to_drop! gives a range)
\* aborts the conversion: nothing is yielded and the stream gets no BrIf.
\* When no drops are required the batch is Block(current stack, label),
\* BrIf{then: the branch target of the target frame, else_: label},
\* Label(label), the label being (a fresh id, Header).
C36_BrIfWithDrops ==
    [][BrIfRead =>
          LET stk == SubSeq(ty_stack, 1, Len(ty_stack) - 1)
              target == control_frames[nth_block(control_frames,
                                                 read_op'.relative_depth)]
              label == <<current_id, Header>>
          IN  IF to_drop(target, stk, num_locals) # None
              THEN /\ conv_panic' # ""
                   /\ stream' = stream
              ELSE /\ conv_panic' = ""
                   /\ batch' = <<Operator_block(stk, label),
                                 Operator_BrIf(br_target(target),
                                               BrTarget_Label(label)),
                                 Operator_Label(label)>>
                   /\ stream' = stream \o batch'
                   /\ FreshId(stream, current_id)]_vars

\* a BrIf to an enclosing block read with two operands under its condition:
\* the conversion has aborted
C36_Witness ==
    /\ read_op.op = "BrIf"
    /\ conv_panic = "not yet implemented"
    /\ Len(control_frames) >= 2
    /\ Len(ty_stack) >= num_locals + 3

\* the number of Block operators of stream s that declare label l
Declarations(s, l) ==
    Cardinality({j \in 1..Len(s) : s[j].op = "Block" /\ s[j].label = l})

\* the labels stream s declares or defines
LabelsOf(s) == {s[j].label : j \in {i \in 1..Len(s) : s[i].op \in {"Block", "Label"}}}

\* C37: labels are write-once. Every control frame pushed and every
\* fall-through label of a BrIf takes the id next_id returns, which no
\* frame on the stack and no earlier operator of the stream carries, and
\* the stream holds at most one Label operator and at most one Block
\* declaration for each label (id, Header), (id, Else), (id, End): the
\* stream only grows, so each step is checked for the labels of the
\* operators it appends.
C37_LabelsWriteOnce ==
    [][/\ \A l \in LabelsOf(SubSeq(stream', Len(stream) + 1, Len(stream'))) :
              Definitions(stream', l) <= 1 /\ Declarations(stream', l) <= 1
       /\ \A i, j \in 1..Len(control_frames') :
              i # j => control_frames'[i].id # control_frames'[j].id
       /\ \A k \in (Len(stream) + 1)..Len(stream') :
              stream'[k].op = "Block" =>
                 /\ stream'[k].label[1] = current_id
                 /\ current_id' = current_id + 1
                 /\ FreshId(stream, current_id)
                 /\ \A i \in 1..Len(control_frames) :
                        control_frames[i].id # current_id
       /\ Len(control_frames') = Len(control_frames) + 1 =>
              /\ control_frames'[Len(control_frames')].id = current_id
              /\ current_id' = current_id + 1]_vars

\* a BrIf converted after three frames have taken their ids: its
\* fall-through label carries a fourth
C37_Witness ==
    /\ read_op.op = "BrIf"
    /\ conv_panic = ""
    /\ Len(batch) = 3
    /\ batch[3].op = "Label"
    /\ batch[3].label[1] >= 3
    /\ current_id = batch[3].label[1] + 1

\* the positions before j of the stream that hold an operator other than a
\* Block declaration
Preceding(j) == {i \in 1..(j - 1) : stream[i].op # "Block"}

\* C38: control never falls through into a label. Every Label operator of
\* the stream is directly preceded, Block declarations aside, by an operator
\* that closes the block before it: Br, BrIf, BrTable or Unreachable. This
\* holds for the labels emitted in reachable and in unreachable mode.
C38_NoFallThrough ==
    \A j \in 1..Len(stream) :
        stream[j].op = "Label" =>
            /\ Preceding(j) # {}
            /\ stream[Max(Preceding(j))].op \in {"Br", "BrIf", "BrTable", "Unreachable"}

\* an Else met in unreachable mode after skipped operators: its label comes
\* directly after the Unreachable that started the dead code
C38_Witness ==
    /\ read_op.op = "Else"
    /\ conv_panic = ""
    /\ Len(batch) = 1
    /\ batch[1].op = "Label"
    /\ batch[1].label[2] = Else
    /\ Len(stream) >= 2
    /\ stream[Len(stream) - 1].op = "Unreachable"
    /\ nread >= 4

----------------------------------------------------------------------------
(* SpecCompare: the comparison operators of the four types converted on    *)
(* operands read from the parameters of the function.                      *)

CompareFunctions ==
    {[params |-> <<t, t>>, locals |-> <<>>, returns |-> <<I32>>] :
        t \in {I32, I64, F32, F64}}

InitCompare == \E f \in CompareFunctions : MicrowasmConv_new(f)

ConvCompare == \E c \in CmpOps : Convert(WasmCmpOp(c))

NextCompare ==
    EmitConsts \/ ConvGetLocal \/ ConvCompare \/ ConvEnd \/ NextDone

SpecCompare == InitCompare /\ [][NextCompare]_vars

\* C39: the signature of every comparison operator removes two operands of
\* the compared type from the symbolic stack and pushes one I32, for the
\* comparisons of I32, I64, F32 and F64 alike.
C39_ComparisonSignature ==
    [][(Handled /\ read_op'.op = "Cmp" /\ ~unreachable /\ ~skipping) =>
          /\ Len(ty_stack) >= 2
          /\ ty_stack[Len(ty_stack)] = read_op'.cmp[1]
          /\ ty_stack[Len(ty_stack) - 1] = read_op'.cmp[1]
          /\ ty_stack' = Append(SubSeq(ty_stack, 1, Len(ty_stack) - 2), I32)]_vars

====
